---- MODULE Spec2Model ----
(***************************************************************************)
(* LomoKino film-strip processor: separator detection, content trimming,   *)
(* frame extraction, video assembly and the batch drivers around them.     *)
(*                                                                         *)
(* Numbers are the integers the Python code computes.  int(x * 0.08),      *)
(* int(x * 0.92), int(x * 0.03), int(x * 0.02), int(x * 0.10) and          *)
(* int(x * 0.12) equal floor(x * p / 100) in IEEE double arithmetic for    *)
(* every 0 <= x < 3000, the range of the sizes used here, so they are      *)
(* written (x * p) \div 100.                                               *)
(***************************************************************************)
EXTENDS Integers, Sequences, FiniteSets, TLC

VARIABLES
    processor,    \* LomoKinoProcessor fields: frame_height, min_frame_distance, detection_sensitivity
    image,        \* the image handed to detect_frames (size and what cv2 / numpy find in it)
    result,       \* outcome of the latest detect_frames call
    previous,     \* outcome of the call before it
    region,       \* the grayscale frame handed to detect_content_boundaries
    bounds,       \* the rectangle detect_content_boundaries returned for it
    strip,        \* the strip image handed to extract_frames
    frame_separators,  \* the separator list handed to extract_frames
    frames,       \* the frames extract_frames returned
    extracted,    \* extract_frames has returned
    videoFrames,  \* the frame list handed to create_video by a direct caller
    films,        \* the strip files of a batch, in processing order
    writerOpens,  \* the environment lets cv2.VideoWriter open the output file
    video,        \* outcome of the latest create_video call
    batch,        \* outcome of the batch driver that ran
    current_image,     \* InteractiveFilmPreview.current_image: the decoded strip on display
    selection_boxes,   \* InteractiveFilmPreview.selection_boxes: the rectangles drawn on it
    regions,           \* what the latest get_selected_regions call returned
    current_frames,    \* LomoKinoGUI.current_frames: the frame list the window shows
    generate_enabled,  \* the "generate video" button accepts a click
    candidate_rows,    \* the candidate rows a merge step of detect_frames starts from
    merge_distance,    \* min_distance of that merge step
    merged_separators, \* merged_separators once the merge step has run
    params,            \* LomoKinoGUI.params: fps and frame_height
    threads,           \* the VideoProcessThread objects started so far, each with its position
    clicks             \* the user actions of the session so far

detectVars == <<processor, image, result, previous>>

trimVars == <<region, bounds>>

extractVars == <<strip, frame_separators, frames, extracted>>

pipelineVars == <<videoFrames, films, writerOpens, video, batch>>

guiVars == <<current_image, selection_boxes, regions, current_frames, generate_enabled>>

mergeVars == <<candidate_rows, merge_distance, merged_separators>>

workerVars == <<params, threads, clicks>>

vars == <<processor, image, result, previous, region, bounds,
          strip, frame_separators, frames, extracted,
          videoFrames, films, writerOpens, video, batch,
          current_image, selection_boxes, regions, current_frames, generate_enabled,
          candidate_rows, merge_distance, merged_separators,
          params, threads, clicks>>

----------------------------------------------------------------------------
(* Bounds of the model *)

\* candidate rows reported by cv2 lie on multiples of H / CandGrid
CandGrid == 4
\* at most this many Hough lines per image
MaxCands == 3
\* at most this many rows pass the brightness-valley test per image
MaxDark == 2
\* largest height and width of a frame handed to detect_content_boundaries on its own
MaxRegion == 8
\* longest frame list handed to create_video by a direct caller
MaxFrames == 3
\* most strip files in a batch
MaxFilms == 2
\* the all-white strips of every width up to this one are looked at
MaxWhiteWidth == 60

----------------------------------------------------------------------------
(* Optional values: None is <<>>, a set value v is <<v>> *)

None == <<>>

Some(v) == <<v>>

Max(a, b) == IF a >= b THEN a ELSE b

Min(a, b) == IF a <= b THEN a ELSE b

\* sorted(list(set(...))): the ascending sequence of a finite set of integers
RECURSIVE Sorted(_)
Sorted(S) ==
    IF S = {} THEN <<>>
    ELSE LET m == CHOOSE x \in S : \A y \in S : x <= y
         IN  <<m>> \o Sorted(S \ {m})

\* the value of an expression that is evaluated once: the element of a one-element set
Only(S) == CHOOSE x \in S : TRUE

Elems(seq) == {seq[i] : i \in 1..Len(seq)}

\* list(range(0, stop, step)) for step > 0; empty for step < 0 (step = 0 raises)
Range0(stop, step) ==
    IF step > 0
    THEN [i \in 1..((stop + step - 1) \div step) |-> (i - 1) * step]
    ELSE <<>>

----------------------------------------------------------------------------
(* detect_frames *)

\* variant: one large dimension is enough for "high"
SensitivityEither(sens, width, height) ==
    IF sens = "auto"
    THEN IF width < 500 /\ height < 1000 THEN "medium"
         ELSE IF width < 800 /\ height < 1500 THEN "medium"
         ELSE "high"
    ELSE sens

\* effective sensitivity
Sensitivity(sens, width, height) ==
    IF sens = "auto"
    THEN IF width < 500 /\ height < 1000 THEN "medium"
         ELSE IF width < 800 \/ height < 1500 THEN "medium"
         ELSE "high"
    ELSE sens

\* variant: a configured distance of 0 counts as not set
MinDistanceTruthy(mfd, sensitivity, height) ==
    IF mfd # None /\ mfd[1] # 0 THEN mfd[1]
    ELSE IF sensitivity = "low" THEN Max((height * 12) \div 100, 60)
    ELSE IF sensitivity = "medium" THEN Max((height * 10) \div 100, 50)
    ELSE Max((height * 8) \div 100, 40)

\* minimum distance between kept separators
MinDistance(mfd, sensitivity, height) ==
    IF mfd # None THEN mfd[1]
    ELSE IF sensitivity = "low" THEN Max((height * 12) \div 100, 60)
    ELSE IF sensitivity = "medium" THEN Max((height * 10) \div 100, 50)
    ELSE Max((height * 8) \div 100, 40)

\* variant: the upper bound of the row check is missing
LineSeparatorsNoUpper(lines, height) == {y \in lines : 0 < y}

\* y-coordinates of the near-horizontal Hough lines that are kept
LineSeparators(lines, height) == {y \in lines : 0 < y /\ y < height}

\* variant: a candidate at exactly the minimum distance is kept
RECURSIVE MergeFromInclusive(_, _, _, _)
MergeFromInclusive(seq, i, merged, minDistance) ==
    IF i > Len(seq) THEN merged
    ELSE IF seq[i] - merged[Len(merged)] >= minDistance
         THEN MergeFromInclusive(seq, i + 1, Append(merged, seq[i]), minDistance)
         ELSE MergeFromInclusive(seq, i + 1, merged, minDistance)

\* variant: a candidate is compared with the candidate before it, kept or not
RECURSIVE MergeFromLastSeen(_, _, _, _)
MergeFromLastSeen(seq, i, merged, minDistance) ==
    IF i > Len(seq) THEN merged
    ELSE IF seq[i] - seq[i - 1] > minDistance
         THEN MergeFromLastSeen(seq, i + 1, Append(merged, seq[i]), minDistance)
         ELSE MergeFromLastSeen(seq, i + 1, merged, minDistance)

\* greedy merge of an ascending candidate list
RECURSIVE MergeFrom(_, _, _, _)
MergeFrom(seq, i, merged, minDistance) ==
    IF i > Len(seq) THEN merged
    ELSE IF seq[i] - merged[Len(merged)] > minDistance
         THEN MergeFrom(seq, i + 1, Append(merged, seq[i]), minDistance)
         ELSE MergeFrom(seq, i + 1, merged, minDistance)

MergeSeparators(seq, minDistance) ==
    IF seq = <<>> THEN <<>>
    ELSE MergeFrom(seq, 2, <<seq[1]>>, minDistance)

\* rows scanned by the brightness-valley pass: range(search_window, height - search_window)
SearchWindow(height) == Max((height * 8) \div 100, 30)

ValleySeparators(dark, height) ==
    {i \in dark : SearchWindow(height) <= i /\ i < height - SearchWindow(height)}

\* variant: the brightness-valley pass runs at every sensitivity
ValleyRunsAlways(sensitivity, merged) == Len(merged) < 3

\* the brightness-valley pass runs
ValleyRuns(sensitivity, merged) == sensitivity = "high" /\ Len(merged) < 3

\* the uniform-grid fallback runs
GridRuns(separators) == Len(separators) < 2

\* variant: the aspect ratio is taken as width / height
EstimatedFramesTransposed(width, height) ==
    IF width > 6 * height THEN 8
    ELSE IF width > 4 * height THEN 6
    ELSE IF 2 * width > 5 * height THEN 4
    ELSE 3

\* variant: a ratio equal to a threshold falls in the class above it
EstimatedFramesInclusive(width, height) ==
    IF height >= 6 * width THEN 8
    ELSE IF height >= 4 * width THEN 6
    ELSE IF 2 * height >= 5 * width THEN 4
    ELSE 3

\* frame-count estimate from the aspect ratio height / width
EstimatedFrames(width, height) ==
    IF height > 6 * width THEN 8
    ELSE IF height > 4 * width THEN 6
    ELSE IF 2 * height > 5 * width THEN 4
    ELSE 3

\* variant: the grid fallback derives the frame height from every image anew
GridFrameHeightOwn(frameHeight, width, height) ==
    Some(height \div EstimatedFrames(width, height))

\* self.frame_height once the grid fallback has looked at it
GridFrameHeight(frameHeight, width, height) ==
    IF frameHeight = None
    THEN Some(height \div EstimatedFrames(width, height))
    ELSE frameHeight

\* variant: the frame-count estimate is cached instead of the frame height
FrameHeightAfterCount(frameHeight, width, height, gridRan) ==
    IF gridRan /\ frameHeight = None
    THEN Some(EstimatedFrames(width, height))
    ELSE frameHeight

\* self.frame_height when detect_frames leaves (returning or raising)
FrameHeightAfter(frameHeight, width, height, gridRan) ==
    IF gridRan THEN GridFrameHeight(frameHeight, width, height) ELSE frameHeight

\* start and end points are ensured
EnsureEndpoints(separators, height) ==
    LET withStart == IF 0 \in Elems(separators) THEN separators
                     ELSE <<0>> \o separators
    IN  IF height \in Elems(withStart) THEN withStart
        ELSE Append(withStart, height)

\* the whole call: the returned list (or the error raised) and the field it leaves behind
DetectFrames(proc, img) ==
    LET height == img.H
        width == img.W
        sensitivity == Sensitivity(proc.detection_sensitivity, width, height)
        minDistance == MinDistance(proc.min_frame_distance, sensitivity, height)
        merged1 == MergeSeparators(Sorted(LineSeparators(img.lines, height)), minDistance)
        valley == ValleyRuns(sensitivity, merged1)
        merged2 == IF valley
                   THEN MergeSeparators(
                            Sorted(Elems(merged1) \cup ValleySeparators(img.dark, height)),
                            minDistance)
                   ELSE merged1
        grid == GridRuns(merged2)
        step == GridFrameHeight(proc.frame_height, width, height)[1]
        raises == grid /\ step = 0
        separators == IF grid THEN Range0(height, step) ELSE merged2
    IN  [status |-> IF raises THEN "ValueError" ELSE "ok",
         seps |-> IF raises THEN <<>> ELSE EnsureEndpoints(separators, height),
         tier |-> IF grid THEN "grid" ELSE IF valley THEN "valley" ELSE "lines",
         sensitivity |-> sensitivity,
         min_distance |-> minDistance,
         line_merged |-> merged1,
         valley_ran |-> valley,
         survivors |-> merged2,
         cached |-> grid /\ proc.frame_height = None,
         frame_height |-> FrameHeightAfter(proc.frame_height, width, height, grid)]

----------------------------------------------------------------------------
(* Grayscale pictures.  A picture of H rows and W columns shows one bright    *)
(* rectangle (rows r0..r1-1, columns c0..c1-1, gray level fg) on a background *)
(* of gray level bg.  Means are kept as exact fractions: a row mean is        *)
(* RowSum / W, so comparisons are cross-multiplied.                           *)

Pixel(g, i, j) ==
    IF g.r0 <= i /\ i < g.r1 /\ g.c0 <= j /\ j < g.c1 THEN g.fg ELSE g.bg

\* sum of the pixels of row i and of column j
RowSum(g, i) ==
    IF g.r0 <= i /\ i < g.r1
    THEN g.fg * (g.c1 - g.c0) + g.bg * (g.W - (g.c1 - g.c0))
    ELSE g.bg * g.W

ColSum(g, j) ==
    IF g.c0 <= j /\ j < g.c1
    THEN g.fg * (g.r1 - g.r0) + g.bg * (g.H - (g.r1 - g.r0))
    ELSE g.bg * g.H

\* sum of all pixels
PixelSum(g) ==
    g.fg * (g.r1 - g.r0) * (g.c1 - g.c0)
        + g.bg * (g.H * g.W - (g.r1 - g.r0) * (g.c1 - g.c0))

SetMax(S) == CHOOSE x \in S : \A y \in S : y <= x

\* picture[y1:y2, x1:x2] with 0 <= y1 <= y2 <= H and 0 <= x1 <= x2 <= W
Crop(g, y1, y2, x1, x2) ==
    LET r0 == Max(g.r0, y1) - y1
        r1 == Min(g.r1, y2) - y1
        c0 == Max(g.c0, x1) - x1
        c1 == Min(g.c1, x2) - x1
        lit == r0 < r1 /\ c0 < c1
    IN  [H |-> y2 - y1, W |-> x2 - x1,
         r0 |-> IF lit THEN r0 ELSE 0, r1 |-> IF lit THEN r1 ELSE 0,
         c0 |-> IF lit THEN c0 ELSE 0, c1 |-> IF lit THEN c1 ELSE 0,
         bg |-> g.bg, fg |-> g.fg]

----------------------------------------------------------------------------
(* detect_content_boundaries *)

\* threshold as a percentage of the largest mean: 5 when the mean of the means
\* is below 30, 8 when it is below 60, 12 otherwise (total / count is that mean)
ThresholdPercent(total, count) ==
    IF total < 30 * count THEN 5
    ELSE IF total < 60 * count THEN 8
    ELSE 12

\* row_means and col_means, each mean multiplied by the number of pixels it averages
RowMeans(g) == [i \in 0..(g.H - 1) |-> RowSum(g, i)]

ColMeans(g) == [j \in 0..(g.W - 1) |-> ColSum(g, j)]

\* np.max of means[0..n-1]
MaxOf(means, n) == SetMax({means[i] : i \in 0..(n - 1)})

\* mean > threshold, the threshold being pct percent of the largest mean
Exceeds(mean, maxMean, pct) == mean * 100 > maxMean * pct

\* first position, scanning upwards from 0, whose mean exceeds the threshold; -1 if none
FirstBright(means, n, maxMean, pct) ==
    IF \E i \in 0..(n - 1) : Exceeds(means[i], maxMean, pct)
    THEN CHOOSE i \in 0..(n - 1) :
            /\ Exceeds(means[i], maxMean, pct)
            /\ \A j \in 0..(i - 1) : ~Exceeds(means[j], maxMean, pct)
    ELSE -1

\* first position, scanning downwards from n - 1, whose mean exceeds the threshold
LastBright(means, n, maxMean, pct) ==
    IF \E i \in 0..(n - 1) : Exceeds(means[i], maxMean, pct)
    THEN n - 1 - (CHOOSE k \in 0..(n - 1) :
                    /\ Exceeds(means[n - 1 - k], maxMean, pct)
                    /\ \A j \in 0..(k - 1) : ~Exceeds(means[n - 1 - j], maxMean, pct))
    ELSE -1

\* inward scan from the low edge: first bright position with 3 pixels of padding
ScanLow(means, n, pct) ==
    LET i == FirstBright(means, n, MaxOf(means, n), pct)
    IN  IF i < 0 THEN 0 ELSE Max(0, i - 3)

\* variant: the high edge is put at the last bright position itself
ScanHighBare(means, n, pct) ==
    LET i == LastBright(means, n, MaxOf(means, n), pct)
    IN  IF i < 0 THEN n ELSE Min(n, i)

\* inward scan from the high edge: last bright position with 4 pixels of padding
ScanHigh(means, n, pct) ==
    LET i == LastBright(means, n, MaxOf(means, n), pct)
    IN  IF i < 0 THEN n ELSE Min(n, i + 4)

\* <<top, bottom>> and <<left, right>> as the scans leave them
ScanRows(g) ==
    LET pct == ThresholdPercent(PixelSum(g), g.H * g.W)
        means == RowMeans(g)
    IN  <<ScanLow(means, g.H, pct), ScanHigh(means, g.H, pct)>>

ScanCols(g) ==
    LET pct == ThresholdPercent(PixelSum(g), g.H * g.W)
        means == ColMeans(g)
    IN  <<ScanLow(means, g.W, pct), ScanHigh(means, g.W, pct)>>

\* variant: the axis is reset only below 40% instead of 60%
KeepAxisLoose(lo, hi, size) ==
    IF (hi - lo) * 10 < 4 * size THEN <<0, size>> ELSE <<lo, hi>>

\* keep at least 60% of the axis, else use its full extent
KeepAxis(lo, hi, size) ==
    IF (hi - lo) * 10 < 6 * size THEN <<0, size>> ELSE <<lo, hi>>

DetectContentBoundaries(g) ==
    LET scanRows == ScanRows(g)
        scanCols == ScanCols(g)
        top == scanRows[1]
        bottom == scanRows[2]
        left == scanCols[1]
        right == scanCols[2]
        rows == KeepAxis(top, bottom, g.H)
        cols == KeepAxis(left, right, g.W)
    IN  IF bottom <= top \/ right <= left
        THEN [top |-> 0, bottom |-> g.H, left |-> 0, right |-> g.W]
        ELSE [top |-> rows[1], bottom |-> rows[2], left |-> cols[1], right |-> cols[2]]

----------------------------------------------------------------------------
(* extract_frames *)

\* int(x * p / 100) as Python computes it (truncation towards zero)
IntPercent(x, p) == IF x >= 0 THEN (x * p) \div 100 ELSE -(((-x) * p) \div 100)

\* variant: the left sprocket margin is 80% of the width instead of 8%
RoughCropLeftWide(width) == IntPercent(width, 80)

\* columns kept by the rough crop that removes the sprocket holes
RoughCropLeft(width) == IntPercent(width, 8)

RoughCropRight(width) == IntPercent(width, 92)

\* padding taken off each side of a band
Padding(frameHeight) == IntPercent(frameHeight, 3)

\* variant: 4 percent of the image height, at least 40
MinFrameHeightFixed(height) == Max(IntPercent(height, 4), 40)

\* a band must be higher than this to yield a frame
MinFrameHeight(height) == Max(IntPercent(height, 8), 40)

\* variant: the top of a band is not moved down by the padding
BandTopUnpadded(y1, y2) == Max(0, y1)

\* the band between separators y1 and y2 after padding, clamped to the image
BandTop(y1, y2) == Max(0, y1 + Padding(y2 - y1))

BandBottom(y1, y2, height) == Min(height, y2 - Padding(y2 - y1))

\* a[lo:hi] on an axis of the given size, for 0 <= lo: the kept index range
SliceLow(lo, size) == Min(lo, size)

SliceHigh(lo, hi, size) == Max(Min(hi, size), Min(lo, size))

\* the frame (rows y1..y2-1, columns x1..x2-1 of the strip) cut for one band:
\* the trimmed content area if it is large enough, else the rough frame
BandFrame(img, band, top, bottom) ==
    LET left == SliceLow(RoughCropLeft(img.W), img.W)
        right == SliceHigh(RoughCropLeft(img.W), RoughCropRight(img.W), img.W)
        rough == Crop(img, top, bottom, left, right)
        cb == DetectContentBoundaries(rough)
        finalHeight == cb.bottom - cb.top
        finalWidth == cb.right - cb.left
        trimmed == /\ cb.bottom > cb.top
                   /\ cb.right > cb.left
                   /\ finalHeight * 10 > rough.H * 2
                   /\ finalWidth * 10 > rough.W * 2
    IN  [band |-> band,
         trimmed |-> trimmed,
         y1 |-> IF trimmed THEN top + cb.top ELSE top,
         y2 |-> IF trimmed THEN top + cb.bottom ELSE bottom,
         x1 |-> IF trimmed THEN left + cb.left ELSE left,
         x2 |-> IF trimmed THEN left + cb.right ELSE right]

\* the band yields a frame
BandKept(img, y1, y2) ==
    /\ BandBottom(y1, y2, img.H) - BandTop(y1, y2) > MinFrameHeight(img.H)
    /\ RoughCropRight(img.W) > RoughCropLeft(img.W)

RECURSIVE ExtractFrom(_, _, _, _)
ExtractFrom(img, separators, i, acc) ==
    IF i > Len(separators) - 1 THEN acc
    ELSE LET y1 == separators[i]
             y2 == separators[i + 1]
         IN  ExtractFrom(img, separators, i + 1,
                 IF BandKept(img, y1, y2)
                 THEN Append(acc, BandFrame(img, i, BandTop(y1, y2),
                                            BandBottom(y1, y2, img.H)))
                 ELSE acc)

ExtractFrames(img, separators) == ExtractFrom(img, separators, 1, <<>>)

FrameHeight(f) == f.y2 - f.y1

FrameWidth(f) == f.x2 - f.x1

----------------------------------------------------------------------------
(* create_video *)

\* insertion of x into an ascending sequence
RECURSIVE InsertSorted(_, _)
InsertSorted(seq, x) ==
    IF seq = <<>> THEN <<x>>
    ELSE IF x <= Head(seq) THEN <<x>> \o seq
    ELSE <<Head(seq)>> \o InsertSorted(Tail(seq), x)

RECURSIVE SortedList(_)
SortedList(seq) == IF seq = <<>> THEN <<>> ELSE InsertSorted(SortedList(Tail(seq)), Head(seq))

\* int(np.median(values)) of a non-empty list of positive integers
Median(values) ==
    LET sorted == SortedList(values)
        n == Len(sorted)
    IN  IF n % 2 = 1 THEN sorted[(n + 1) \div 2]
        ELSE (sorted[n \div 2] + sorted[n \div 2 + 1]) \div 2

\* variant: an odd dimension is made even by dropping a pixel
MakeEvenDown(x) == IF x % 2 # 0 THEN x - 1 ELSE x

\* dimensions are made even
MakeEven(x) == IF x % 2 # 0 THEN x + 1 ELSE x

TargetWidth(frameList) ==
    MakeEven(Median([i \in 1..Len(frameList) |-> FrameWidth(frameList[i])]))

TargetHeight(frameList) ==
    MakeEven(Median([i \in 1..Len(frameList) |-> FrameHeight(frameList[i])]))

\* arguments <<d, num, den>> for which the double product d * (num / den) falls
\* just below the integer d * num / den, so that int() yields one less; for every
\* other frame size and target of this model int(d * (num / den)) is the exact floor
RoundsBelow == {<<110, 56, 110>>, <<800, 456, 800>>}

\* int(d * scale) for scale = num / den
ScaledSize(d, num, den) ==
    IF <<d, num, den>> \in RoundsBelow THEN (d * num) \div den - 1
    ELSE (d * num) \div den

\* what the loop body does with one frame
PlaceFrame(f, targetWidth, targetHeight) ==
    LET w == FrameWidth(f)
        h == FrameHeight(f)
        byWidth == targetWidth * h <= targetHeight * w
        num == IF byWidth THEN targetWidth ELSE targetHeight
        den == IF byWidth THEN w ELSE h
        newW == ScaledSize(w, num, den)
        newH == ScaledSize(h, num, den)
    IN  [new_w |-> newW, new_h |-> newH,
         x_offset |-> (targetWidth - newW) \div 2,
         y_offset |-> (targetHeight - newH) \div 2,
         canvas_w |-> targetWidth, canvas_h |-> targetHeight]

\* cv2.resize rejects an empty destination size; the canvas assignment rejects a
\* resized frame that does not fit its slice
FrameFails(placed) ==
    \/ placed.new_w <= 0
    \/ placed.new_h <= 0
    \/ placed.new_w > placed.canvas_w
    \/ placed.new_h > placed.canvas_h

\* the canvases written before the loop ends or a frame raises
RECURSIVE WriteFrames(_, _, _, _, _)
WriteFrames(frameList, i, targetWidth, targetHeight, written) ==
    IF i > Len(frameList) THEN written
    ELSE Only({IF FrameFails(placed) THEN written
               ELSE WriteFrames(frameList, i + 1, targetWidth, targetHeight,
                                Append(written, placed)) :
               placed \in {PlaceFrame(frameList[i], targetWidth, targetHeight)}})

\* variant: a writer is opened and released around every frame
WriterLogPerFrame(count, completed) ==
    [i \in 1..(3 * count) |-> <<"open", "write", "release">>[((i - 1) % 3) + 1]]

\* the calls made on the cv2.VideoWriter: it is released after the loop only
WriterLog(count, completed) ==
    <<"open">> \o [i \in 1..count |-> "write"]
        \o (IF completed THEN <<"release">> ELSE <<>>)

NoVideo == [status |-> "none", value |-> FALSE, log |-> <<>>, opened |-> FALSE,
            target_width |-> 0, target_height |-> 0, written |-> <<>>]

\* variant: the writer is created before the frame list is looked at
EmptyFrameListOpened(opens) ==
    [NoVideo EXCEPT !.status = "returned", !.log = <<"open", "release">>, !.opened = opens]

\* "No frames to create video": False is returned before anything else is done
EmptyFrameList(opens) == [NoVideo EXCEPT !.status = "returned"]

\* the outcome of a call that got past the empty-list test
VideoOutcome(frameList, opens, targetWidth, targetHeight, written) ==
    LET completed == Len(written) = Len(frameList)
    IN  [status |-> IF completed THEN "returned" ELSE "raised",
         value |-> completed,
         log |-> WriterLog(Len(written), completed),
         opened |-> opens,
         target_width |-> targetWidth,
         target_height |-> targetHeight,
         written |-> written]

CreateVideo(frameList, opens) ==
    IF frameList = <<>>
    THEN EmptyFrameList(opens)
    ELSE Only({Only({VideoOutcome(frameList, opens, target[1], target[2], written) :
                     written \in {WriteFrames(frameList, 1, target[1], target[2], <<>>)}}) :
               target \in {<<TargetWidth(frameList), TargetHeight(frameList)>>}})

----------------------------------------------------------------------------
(* Batch drivers: process_image / process_multiple_images,                  *)
(* VideoProcessThread.run and LomoKinoGUI.process_current_film              *)

\* what cv2.imread yields for a strip file that can be decoded
FilmImage(film) == [W |-> film.W, H |-> film.H, lines |-> film.lines, dark |-> film.dark]

FilmPicture(film) ==
    [H |-> film.H, W |-> film.W, r0 |-> film.r0, r1 |-> film.r1,
     c0 |-> film.c0, c1 |-> film.c1, bg |-> film.bg, fg |-> film.fg]

\* a frame of the accumulated list remembers the strip it came from
TagFrames(frameList, filmIndex) ==
    [k \in 1..Len(frameList) |->
        [film |-> filmIndex, band |-> frameList[k].band, trimmed |-> frameList[k].trimmed,
         y1 |-> frameList[k].y1, y2 |-> frameList[k].y2,
         x1 |-> frameList[k].x1, x2 |-> frameList[k].x2]]

\* detect_frames followed by extract_frames on one decoded strip
DetectAndExtract(proc, film, filmIndex) ==
    Only({[raised |-> r.status # "ok",
           frame_height |-> r.frame_height,
           frames |-> IF r.status = "ok"
                      THEN Only({TagFrames(extractedFrames, filmIndex) :
                                 extractedFrames \in {ExtractFrames(FilmPicture(film), r.seps)}})
                      ELSE <<>>] :
          r \in {DetectFrames(proc, FilmImage(film))}})

\* variant: the frames of a strip are put in front of the accumulated list
ExtendFramesFront(allFrames, newFrames) == newFrames \o allFrames

\* all_frames.extend(frames)
ExtendFrames(allFrames, newFrames) == allFrames \o newFrames

\* the loop over the strips of VideoProcessThread.run and process_current_film:
\* an undecodable strip is skipped, an error in detect_frames leaves the loop
RECURSIVE CollectFrames(_, _, _, _)
CollectFrames(proc, filmList, i, acc) ==
    IF i > Len(filmList) THEN acc
    ELSE IF ~filmList[i].readable
    THEN Only({CollectFrames(proc, filmList, i + 1, next) :
               next \in {[acc EXCEPT !.visited = Append(@, i),
                                     !.outcomes = Append(@, "unreadable")]}})
    ELSE Only({IF d.raised
               THEN [acc EXCEPT !.visited = Append(@, i),
                                !.outcomes = Append(@, "error"),
                                !.frame_height = d.frame_height,
                                !.raised = TRUE]
               ELSE Only({CollectFrames(proc, filmList, i + 1, next) :
                          next \in {[acc EXCEPT
                                        !.visited = Append(@, i),
                                        !.outcomes = Append(@, IF d.frames = <<>>
                                                               THEN "no_frames"
                                                               ELSE "frames"),
                                        !.frame_height = d.frame_height,
                                        !.all_frames = ExtendFrames(@, d.frames)]}}) :
               d \in {DetectAndExtract([proc EXCEPT !.frame_height = acc.frame_height],
                                       filmList[i], i)}})

\* the loop state before the first strip
StartLoop(proc) ==
    [frame_height |-> proc.frame_height, all_frames |-> <<>>, visited |-> <<>>,
     outcomes |-> <<>>, raised |-> FALSE, log |-> <<>>, video |-> NoVideo]

Progress(percent) == [signal |-> "progress", percent |-> percent, success |-> FALSE]

Finished(success) == [signal |-> "finished", percent |-> 0, success |-> success]

NoBatch == [driver |-> "none", status |-> "none", value |-> FALSE, visited |-> <<>>,
            outcomes |-> <<>>, all_frames |-> <<>>, signals |-> <<>>, log |-> <<>>,
            video_calls |-> 0]

\* VideoProcessThread.run once the loop over the strips has ended in c, with v
\* the outcome of create_video when it is called
ThreadOutcome(filmList, c, called, v) ==
    LET progress == <<Progress(10)>> \o
                    [k \in 1..Len(c.visited) |->
                        Progress(10 + (60 * (c.visited[k] - 1)) \div Len(filmList))]
        success == called /\ v.status = "returned" /\ v.value
        signals == IF ~called THEN progress \o <<Finished(FALSE)>>
                   ELSE IF v.status = "raised"
                        THEN progress \o <<Progress(70), Finished(FALSE)>>
                        ELSE progress \o <<Progress(70), Progress(100), Finished(success)>>
    IN  [batch |-> [driver |-> "VideoProcessThread.run", status |-> "returned",
                    value |-> success, visited |-> c.visited, outcomes |-> c.outcomes,
                    all_frames |-> c.all_frames, signals |-> signals, log |-> v.log,
                    video_calls |-> IF called THEN 1 ELSE 0],
         video |-> v,
         frame_height |-> c.frame_height]

\* VideoProcessThread.run
ThreadRun(proc, filmList, opens) ==
    Only({IF ~c.raised /\ c.all_frames # <<>>
          THEN Only({ThreadOutcome(filmList, c, TRUE, v) :
                     v \in {CreateVideo(c.all_frames, opens)}})
          ELSE ThreadOutcome(filmList, c, FALSE, NoVideo) :
          c \in {CollectFrames(proc, filmList, 1, StartLoop(proc))}})

\* LomoKinoGUI.process_current_film, after the widgets were copied to the processor
ProcessCurrentFilm(proc, filmList) ==
    Only({[batch |-> [driver |-> "process_current_film", status |-> "returned",
                      value |-> ~c.raised /\ c.all_frames # <<>>,
                      visited |-> c.visited, outcomes |-> c.outcomes,
                      all_frames |-> IF c.raised THEN <<>> ELSE c.all_frames,
                      signals |-> <<>>, log |-> <<>>, video_calls |-> 0],
           video |-> NoVideo,
           frame_height |-> c.frame_height] :
          c \in {CollectFrames(proc, filmList, 1, StartLoop(proc))}})

\* process_image on a decoded strip whose frames d were extracted: the loop state
\* after create_video returned v or raised
ImageProcessed(acc, i, d, v) ==
    [acc EXCEPT !.visited = Append(@, i),
                !.outcomes = Append(@, IF v.status = "raised" THEN "error"
                                       ELSE IF v.value THEN "video" ELSE "video_failed"),
                !.frame_height = d.frame_height,
                !.raised = (v.status = "raised"),
                !.all_frames = @ \o d.frames,
                !.log = @ \o v.log,
                !.video = v]

\* the loop of process_multiple_images: process_image on every file, its result
\* ignored; an error raised by detect_frames or create_video leaves the loop
RECURSIVE ProcessImages(_, _, _, _, _)
ProcessImages(proc, filmList, opens, i, acc) ==
    IF i > Len(filmList) THEN acc
    ELSE IF ~filmList[i].readable
    THEN Only({ProcessImages(proc, filmList, opens, i + 1, next) :
               next \in {[acc EXCEPT !.visited = Append(@, i),
                                     !.outcomes = Append(@, "unreadable")]}})
    ELSE Only({IF d.raised
               THEN [acc EXCEPT !.visited = Append(@, i), !.outcomes = Append(@, "error"),
                                !.frame_height = d.frame_height, !.raised = TRUE]
               ELSE IF d.frames = <<>>
               THEN Only({ProcessImages(proc, filmList, opens, i + 1, next) :
                          next \in {[acc EXCEPT !.visited = Append(@, i),
                                                !.outcomes = Append(@, "no_frames"),
                                                !.frame_height = d.frame_height]}})
               ELSE Only({IF next.raised THEN next
                          ELSE ProcessImages(proc, filmList, opens, i + 1, next) :
                          next \in {ImageProcessed(acc, i, d, v) :
                                    v \in {CreateVideo(d.frames, opens)}}}) :
               d \in {DetectAndExtract([proc EXCEPT !.frame_height = acc.frame_height],
                                       filmList[i], i)}})

\* LomoKinoProcessor.process_multiple_images
ProcessMultipleImages(proc, filmList, opens) ==
    Only({[batch |-> [driver |-> "process_multiple_images",
                      status |-> IF c.raised THEN "raised" ELSE "returned",
                      value |-> ~c.raised /\ filmList # <<>>,
                      visited |-> c.visited, outcomes |-> c.outcomes,
                      all_frames |-> c.all_frames, signals |-> <<>>, log |-> c.log,
                      video_calls |-> Cardinality({k \in 1..Len(c.log) : c.log[k] = "open"})],
           video |-> c.video,
           frame_height |-> c.frame_height] :
          c \in {ProcessImages(proc, filmList, opens, 1, StartLoop(proc))}})

----------------------------------------------------------------------------
(* Inputs of the detection model *)

Sensitivities == {"auto", "low", "medium", "high"}

FrameHeights == {None, Some(0), Some(40), Some(-40)}

MinFrameDistances == {None, Some(0), Some(30), Some(70)}

\* (width, height) of the strips
Dims == {<<4, 2>>, <<100, 100>>, <<100, 300>>, <<100, 450>>, <<100, 650>>, <<800, 1500>>}

SubsetsUpTo(S, n) == {T \in SUBSET S : Cardinality(T) <= n}

\* int(rho / sin(theta)) of a near-horizontal line may be any row, also outside the image
LineRows(height) == {(q * height) \div CandGrid : q \in 0..(CandGrid + 1)}

DarkRows(height) == {(q * height) \div CandGrid : q \in 1..(CandGrid - 1)}

NoImage == [W |-> 0, H |-> 0, lines |-> {}, dark |-> {}]

NoRegion == [H |-> 0, W |-> 0, r0 |-> 0, r1 |-> 0, c0 |-> 0, c1 |-> 0, bg |-> 0, fg |-> 0]

NoBounds == [top |-> 0, bottom |-> 0, left |-> 0, right |-> 0]

NoResult == [status |-> "none", seps |-> <<>>, tier |-> "none", sensitivity |-> "none",
             min_distance |-> 0, line_merged |-> <<>>, valley_ran |-> FALSE,
             survivors |-> <<>>, cached |-> FALSE, frame_height |-> None]

\* the brightness pass reads the image
ReadsBrightness(proc, width, height, lines) ==
    LET sensitivity == Sensitivity(proc.detection_sensitivity, width, height)
        minDistance == MinDistance(proc.min_frame_distance, sensitivity, height)
    IN  ValleyRuns(sensitivity,
                   MergeSeparators(Sorted(LineSeparators(lines, height)), minDistance))

\* images as detect_frames sees them: the size, the rows of the Hough lines and,
\* when the brightness pass runs, the rows that pass its percentile test
Images(proc) ==
    UNION {UNION {{[W |-> d[1], H |-> d[2], lines |-> lines, dark |-> dark] :
                      dark \in IF ReadsBrightness(proc, d[1], d[2], lines)
                               THEN SubsetsUpTo(DarkRows(d[2]), MaxDark)
                               ELSE {{}}} :
                  lines \in SubsetsUpTo(LineRows(d[2]), MaxCands)} :
           d \in Dims}

\* a processor built with the default arguments
DefaultProcessor ==
    [frame_height |-> None, min_frame_distance |-> None, detection_sensitivity |-> "auto"]

\* the parts of the state an operation under study does not use
DetectIdle ==
    /\ processor = DefaultProcessor
    /\ image = NoImage
    /\ result = NoResult
    /\ previous = NoResult

TrimIdle ==
    /\ region = NoRegion
    /\ bounds = NoBounds

ExtractIdle ==
    /\ strip = NoRegion
    /\ frame_separators = <<>>
    /\ frames = <<>>
    /\ extracted = FALSE

PipelineIdle ==
    /\ videoFrames = <<>>
    /\ films = <<>>
    /\ writerOpens = TRUE
    /\ video = NoVideo
    /\ batch = NoBatch

GuiIdle ==
    /\ current_image = None
    /\ selection_boxes = <<>>
    /\ regions = None
    /\ current_frames = <<>>
    /\ generate_enabled = FALSE

MergeIdle ==
    /\ candidate_rows = {}
    /\ merge_distance = 0
    /\ merged_separators = None

\* self.params as __init__ leaves it; the keys generate_video adds later hold
\* the value a read of the missing key defaults to
DefaultParams == [fps |-> 12, frame_height |-> None, sensitivity |-> 0, min_distance |-> 0]

WorkerIdle ==
    /\ params = DefaultParams
    /\ threads = <<>>
    /\ clicks = 0

InitDetect ==
    /\ processor \in [frame_height : FrameHeights,
                      min_frame_distance : MinFrameDistances,
                      detection_sensitivity : Sensitivities]
    /\ image = NoImage
    /\ result = NoResult
    /\ previous = NoResult
    /\ TrimIdle
    /\ ExtractIdle
    /\ PipelineIdle
    /\ GuiIdle
    /\ MergeIdle
    /\ WorkerIdle

\* the first detect_frames(image) call on the processor
DetectFramesCall ==
    /\ result = NoResult
    /\ \E img \in Images(processor) :
          LET r == DetectFrames(processor, img)
          IN  /\ image' = img
              /\ result' = r
              /\ processor' = [processor EXCEPT !.frame_height = r.frame_height]
    /\ previous' = NoResult
    /\ UNCHANGED <<trimVars, extractVars, pipelineVars, guiVars, mergeVars, workerVars>>

\* detect_frames(image) once more on the same processor and image
DetectFramesAgain ==
    /\ result # NoResult
    /\ LET r == DetectFrames(processor, image)
       IN  /\ result' = r
           /\ processor' = [processor EXCEPT !.frame_height = r.frame_height]
    /\ previous' = result
    /\ UNCHANGED <<image, trimVars, extractVars, pipelineVars, guiVars, mergeVars, workerVars>>

NextDetect == DetectFramesCall \/ DetectFramesAgain

SpecDetect == InitDetect /\ [][NextDetect]_vars

----------------------------------------------------------------------------
(* Properties of detect_frames *)

StrictlyIncreasing(seq) == \A i \in 1..(Len(seq) - 1) : seq[i] < seq[i + 1]

\* adjacent separators other than the first and the last one are more than d apart
InteriorGapsExceed(seq, d) == \A i \in 2..(Len(seq) - 2) : seq[i + 1] - seq[i] > d

\* C1: whatever the image, the configuration and the tier, the list detect_frames
\* returns has at least two entries, starts with 0, ends with the image height
\* and is strictly increasing.
DetectReturnsSeparatorSet ==
    result.status = "ok" =>
        /\ Len(result.seps) >= 2
        /\ result.seps[1] = 0
        /\ result.seps[Len(result.seps)] = image.H
        /\ StrictlyIncreasing(result.seps)

\* a returned list with separators found by the brightness pass between the end points
DetectReturnsSeparatorSetWitness ==
    /\ result.status = "ok"
    /\ result.tier = "valley"
    /\ Len(result.seps) >= 4
    /\ image.lines \ LineSeparators(image.lines, image.H) # {}

\* C2: detect_frames never fails, whatever the image and the frame_height override.
DetectNeverFails == result.status # "ValueError"

\* C3 as stated: in every returned list, whichever tier produced it, adjacent
\* separators other than the end points 0 and H differ by more than the minimum distance.
DetectMinDistanceAllTiers ==
    result.status = "ok" => InteriorGapsExceed(result.seps, result.min_distance)

\* C3 amended: when the list was produced by the edge/line pass or the
\* brightness-valley pass (the uniform-grid fallback did not run), adjacent
\* separators other than the end points 0 and H differ by more than the minimum distance.
DetectMinDistanceMerged ==
    (result.status = "ok" /\ result.tier # "grid") =>
        InteriorGapsExceed(result.seps, result.min_distance)

\* the merge dropped a candidate and left at least two interior separators
DetectMinDistanceMergedWitness ==
    /\ result.status = "ok"
    /\ result.tier = "lines"
    /\ Len(result.seps) >= 4
    /\ Cardinality(LineSeparators(image.lines, image.H)) > Len(result.seps) - 2

\* C10: a second detect_frames call on the same processor with the same image
\* and configuration returns the same separator list as the first.
DetectIdempotent ==
    previous # NoResult =>
        /\ result.status = previous.status
        /\ result.seps = previous.seps

\* the first call reached the grid fallback and cached a frame height, the second returned
DetectIdempotentWitness ==
    /\ previous.cached
    /\ previous.status = "ok"
    /\ result.status = "ok"
    /\ Len(result.seps) > 2
    /\ processor.frame_height # None

----------------------------------------------------------------------------
(* detect_frames on two strips in a row, as the loops over the strips of a    *)
(* batch call it on one processor                                             *)

\* (width, height) of the strips
StripSizes ==
    {<<4, 2>>, <<100, 250>>, <<100, 300>>, <<100, 400>>, <<100, 450>>, <<100, 600>>,
     <<100, 650>>, <<365, 800>>, <<499, 999>>, <<500, 999>>, <<799, 1500>>,
     <<800, 1499>>, <<800, 1500>>, <<1200, 900>>}

\* strips without Hough lines, with one and with two well separated ones
StripImages ==
    UNION {{[W |-> d[1], H |-> d[2], lines |-> lines, dark |-> {}] :
               lines \in {{}, {d[2] \div 2}, {d[2] \div 4, (3 * d[2]) \div 4}}} :
           d \in StripSizes}

InitStrips == InitDetect

\* detect_frames(image) on the next strip; two strips are looked at
DetectFramesOnStrip ==
    /\ previous = NoResult
    /\ \E img \in StripImages :
          \E r \in {DetectFrames(processor, img)} :
              /\ image' = img
              /\ result' = r
              /\ processor' = [processor EXCEPT !.frame_height = r.frame_height]
    /\ previous' = result
    /\ UNCHANGED <<trimVars, extractVars, pipelineVars, guiVars, mergeVars, workerVars>>

NextStrips == DetectFramesOnStrip

SpecStrips == InitStrips /\ [][NextStrips]_vars

\* C11: a detect_frames call changes the processor in one case only: when the
\* grid fallback is reached and frame_height is None, frame_height becomes
\* H // estimatedFrames of the image of that call.  A call that reaches the grid
\* fallback with a frame_height already set lays its grid with that value,
\* whatever the height of its own image.  min_frame_distance and
\* detection_sensitivity never change.
DetectCachesFrameHeight ==
    [][/\ processor'.min_frame_distance = processor.min_frame_distance
       /\ processor'.detection_sensitivity = processor.detection_sensitivity
       /\ processor'.frame_height =
              IF result'.tier = "grid" /\ processor.frame_height = None
              THEN Some(image'.H \div EstimatedFrames(image'.W, image'.H))
              ELSE processor.frame_height
       /\ (result'.tier = "grid" /\ result'.status = "ok"
              /\ processor.frame_height # None) =>
             \A k \in 1..(Len(result'.seps) - 1) :
                 result'.seps[k] = (k - 1) * processor.frame_height[1]]_vars

\* the first strip cached a frame height and the second strip, of another height,
\* got a grid laid with it
DetectCachesFrameHeightWitness ==
    /\ previous.cached
    /\ previous.status = "ok"
    /\ result.tier = "grid"
    /\ result.status = "ok"
    /\ ~result.cached
    /\ Len(result.seps) > 2
    /\ result.seps[2] = processor.frame_height[1]
    /\ result.seps[2] # image.H \div EstimatedFrames(image.W, image.H)

\* C16: with sensitivity "auto" the effective sensitivity is "high" exactly when
\* width >= 800 and height >= 1500 and "medium" otherwise (a 365x800 strip gets
\* "medium"), never "low"; an explicit setting is used unchanged.
AutoSensitivityBySize ==
    result # NoResult =>
        /\ processor.detection_sensitivity = "auto" =>
               /\ result.sensitivity =
                      IF image.W >= 800 /\ image.H >= 1500 THEN "high" ELSE "medium"
               /\ result.sensitivity # "low"
               /\ (image.W = 365 /\ image.H = 800) => result.sensitivity = "medium"
        /\ processor.detection_sensitivity # "auto" =>
               result.sensitivity = processor.detection_sensitivity

\* a strip with one dimension at its limit and the other just below got "medium"
AutoSensitivityBySizeWitness ==
    /\ processor.detection_sensitivity = "auto"
    /\ result.sensitivity = "medium"
    /\ image.W >= 800
    /\ image.H = 1499

----------------------------------------------------------------------------
(* detect_content_boundaries on a frame of its own *)

GrayLevels == [bg : {0, 10}, fg : {41, 199}]

\* half-open intervals inside 0..size, the empty one once
Intervals(size) ==
    {<<0, 0>>} \cup {iv \in (0..size) \X (0..size) : iv[1] < iv[2]}

\* the frame of h rows and w columns with the given bright rectangle and gray levels
Region(h, w, rows, cols, lv) ==
    [H |-> h, W |-> w, r0 |-> rows[1], r1 |-> rows[2],
     c0 |-> cols[1], c1 |-> cols[2], bg |-> lv.bg, fg |-> lv.fg]

InitTrim ==
    /\ \E h \in 1..MaxRegion, w \in 1..MaxRegion, lv \in GrayLevels :
          \E rows \in Intervals(h), cols \in Intervals(w) :
              region = Region(h, w, rows, cols, lv)
    /\ bounds = NoBounds
    /\ DetectIdle
    /\ ExtractIdle
    /\ PipelineIdle
    /\ GuiIdle
    /\ MergeIdle
    /\ WorkerIdle

\* detect_content_boundaries(frame)
DetectContentBoundariesCall ==
    /\ bounds = NoBounds
    /\ bounds' = DetectContentBoundaries(region)
    /\ UNCHANGED <<region, detectVars, extractVars, pipelineVars, guiVars, mergeVars, workerVars>>

NextTrim == DetectContentBoundariesCall

SpecTrim == InitTrim /\ [][NextTrim]_vars

\* C4: the rectangle detect_content_boundaries returns keeps at least 60% of the
\* height and of the width of the frame; an axis whose inward scan keeps less than
\* 60% is reset to its full extent, and the other axis keeps its own scan result.
TrimKeepsSixtyPercent ==
    bounds # NoBounds =>
        LET top == ScanRows(region)[1]
            bottom == ScanRows(region)[2]
            left == ScanCols(region)[1]
            right == ScanCols(region)[2]
        IN  /\ (bounds.bottom - bounds.top) * 10 >= 6 * region.H
            /\ (bounds.right - bounds.left) * 10 >= 6 * region.W
            /\ IF (bottom - top) * 10 < 6 * region.H
               THEN bounds.top = 0 /\ bounds.bottom = region.H
               ELSE bounds.top = top /\ bounds.bottom = bottom
            /\ IF (right - left) * 10 < 6 * region.W
               THEN bounds.left = 0 /\ bounds.right = region.W
               ELSE bounds.left = left /\ bounds.right = right

\* the rows were reset to the full height while the columns stay trimmed
TrimKeepsSixtyPercentWitness ==
    /\ bounds # NoBounds
    /\ (ScanRows(region)[2] - ScanRows(region)[1]) * 10 < 6 * region.H
    /\ bounds.top = 0
    /\ bounds.bottom = region.H
    /\ bounds.left > 0
    /\ bounds.right - bounds.left < region.W

----------------------------------------------------------------------------
(* extract_frames on a strip and a separator list *)

\* (width, height) of the strips handed to extract_frames
StripDims == {<<100, 240>>, <<100, 100>>, <<40, 200>>}

\* rows and columns where the bright content of a strip may begin and end
ContentRows(height) == {0, 8, height \div 2, height - 8, height}

ContentCols(width) == {0, 12, width - 12, width}

ContentIntervals(S) == {<<0, 0>>} \cup {iv \in S \X S : iv[1] < iv[2]}

\* separators lie on multiples of H / CandGrid
SeparatorRows(height) == {(q * height) \div CandGrid : q \in 0..CandGrid}

InitExtract ==
    /\ \E d \in StripDims, lv \in GrayLevels :
          \E rows \in ContentIntervals(ContentRows(d[2])),
             cols \in ContentIntervals(ContentCols(d[1])),
             S \in SUBSET SeparatorRows(d[2]) :
              /\ strip = Region(d[2], d[1], rows, cols, lv)
              /\ frame_separators = Sorted(S)
    /\ frames = <<>>
    /\ extracted = FALSE
    /\ DetectIdle
    /\ TrimIdle
    /\ PipelineIdle
    /\ GuiIdle
    /\ MergeIdle
    /\ WorkerIdle

\* extract_frames(image, frame_separators)
ExtractFramesCall ==
    /\ ~extracted
    /\ frames' = ExtractFrames(strip, frame_separators)
    /\ extracted' = TRUE
    /\ UNCHANGED <<strip, frame_separators, detectVars, trimVars, pipelineVars, guiVars, mergeVars, workerVars>>

NextExtract == ExtractFramesCall

SpecExtract == InitExtract /\ [][NextExtract]_vars

\* the rough crop of band i as the claim describes it: the band shrunk by 3% of its
\* height on each side, columns from 8% to 92% of the width
RoughHeightOf(i) ==
    LET y1 == frame_separators[i]
        y2 == frame_separators[i + 1]
        pad == (3 * (y2 - y1)) \div 100
    IN  Min(strip.H, y2 - pad) - Max(0, y1 + pad)

RoughWidthOf == (92 * strip.W) \div 100 - (8 * strip.W) \div 100

\* C5: every frame extract_frames returns is at least 0.2 times as high and as wide
\* as the rough crop of its band; a frame that was not trimmed is that rough crop.
ExtractKeepsFifthOfRough ==
    extracted =>
        \A k \in 1..Len(frames) :
            LET f == frames[k]
            IN  /\ FrameHeight(f) * 10 >= 2 * RoughHeightOf(f.band)
                /\ FrameWidth(f) * 10 >= 2 * RoughWidthOf
                /\ ~f.trimmed =>
                       /\ FrameHeight(f) = RoughHeightOf(f.band)
                       /\ FrameWidth(f) = RoughWidthOf

\* two frames were returned, one of them trimmed to less than its rough crop on both axes
ExtractKeepsFifthOfRoughWitness ==
    /\ extracted
    /\ Len(frames) >= 2
    /\ \E k \in 1..Len(frames) :
          /\ frames[k].trimmed
          /\ FrameHeight(frames[k]) < RoughHeightOf(frames[k].band)
          /\ FrameWidth(frames[k]) < RoughWidthOf

----------------------------------------------------------------------------
(* detect_frames followed by extract_frames on an all-white strip three times *)
(* as high as wide, on a processor built with the default arguments           *)

\* widths of the white strips: every width up to MaxWhiteWidth and some large ones
WhiteWidths == (1..MaxWhiteWidth) \cup {100, 365, 800}

\* what detect_frames sees in a white strip: no Hough line, no dark row
WhiteImage(width) == [W |-> width, H |-> 3 * width, lines |-> {}, dark |-> {}]

WhitePicture(width) ==
    [H |-> 3 * width, W |-> width, r0 |-> 0, r1 |-> 3 * width,
     c0 |-> 0, c1 |-> width, bg |-> 0, fg |-> 255]

InitWhite ==
    /\ processor = DefaultProcessor
    /\ \E width \in WhiteWidths :
          /\ image = WhiteImage(width)
          /\ strip = WhitePicture(width)
    /\ result = NoResult
    /\ previous = NoResult
    /\ frame_separators = <<>>
    /\ frames = <<>>
    /\ extracted = FALSE
    /\ TrimIdle
    /\ PipelineIdle
    /\ GuiIdle
    /\ MergeIdle
    /\ WorkerIdle

\* frame_separators = detect_frames(image); frames = extract_frames(image, frame_separators)
DetectThenExtract ==
    /\ result = NoResult
    /\ \E r \in {DetectFrames(processor, image)} :
          /\ result' = r
          /\ processor' = [processor EXCEPT !.frame_height = r.frame_height]
          /\ frame_separators' = r.seps
          /\ frames' = IF r.status = "ok" THEN ExtractFrames(strip, r.seps) ELSE <<>>
          /\ extracted' = (r.status = "ok")
    /\ UNCHANGED <<image, previous, strip, trimVars, pipelineVars, guiVars, mergeVars, workerVars>>

NextWhite == DetectThenExtract

SpecWhite == InitWhite /\ [][NextWhite]_vars

\* C12 as stated, for the strips on which detect_frames returns: on every
\* all-white strip with H = 3 * W the grid fallback runs and detect_frames
\* followed by extract_frames yields exactly 4 frames.
WhiteStripFourFrames ==
    extracted =>
        /\ result.tier = "grid"
        /\ Len(frames) = 4

\* C12 amended: on every all-white strip with H = 3 * W the grid fallback runs;
\* when the grid step H // 4 is at least 43 rows, detect_frames followed by
\* extract_frames yields exactly 4 frames.
WhiteStripFourFramesTall ==
    result # NoResult =>
        /\ result.tier = "grid"
        /\ image.H \div 4 >= 43 =>
               /\ extracted
               /\ Len(frames) = 4

\* a strip whose height is no multiple of 4: the grid has a fifth, short band at
\* the bottom, and 4 frames came out
WhiteStripFourFramesTallWitness ==
    /\ extracted
    /\ image.H \div 4 >= 43
    /\ image.H % 4 # 0
    /\ Len(frame_separators) = 6
    /\ Len(frames) = 4

----------------------------------------------------------------------------
(* create_video and the batch drivers on concrete strips *)

\* (width, height) of the frames a direct caller hands to create_video
VideoFrameSizes == {<<100, 200>>, <<110, 190>>, <<90, 210>>, <<1, 1000>>, <<800, 50>>}

\* (width, height) of the five frames of the assembly scenario
FiveFrameSizes == <<<<100, 200>>, <<110, 190>>, <<90, 210>>, <<100, 200>>, <<105, 195>>>>

FrameOfSize(size) ==
    [film |-> 0, band |-> 0, trimmed |-> FALSE,
     y1 |-> 0, y2 |-> size[2], x1 |-> 0, x2 |-> size[1]]

\* a strip file showing a uniform bright area with dark margins, without detectable lines
Film(readable, width, height, marginY, marginX) ==
    [readable |-> readable, W |-> width, H |-> height, lines |-> {}, dark |-> {},
     r0 |-> marginY, r1 |-> height - marginY, c0 |-> marginX, c1 |-> width - marginX,
     bg |-> 0, fg |-> 199]

\* the strip files: one that cannot be decoded, a 4x2 picture, a short strip,
\* a strip with margins, a very narrow strip and a wide strip
FilmKinds ==
    {Film(FALSE, 0, 0, 0, 0), Film(TRUE, 4, 2, 0, 0), Film(TRUE, 100, 100, 0, 0),
     Film(TRUE, 100, 240, 8, 12), Film(TRUE, 2, 400, 0, 0), Film(TRUE, 300, 150, 0, 0)}

\* processors of the batch drivers: automatic frame height or the smallest manual one
BatchProcessors ==
    {DefaultProcessor, [DefaultProcessor EXCEPT !.frame_height = Some(50)]}

SeqsUpTo(S, n) == UNION {[1..k -> S] : k \in 0..n}

InitPipeline ==
    /\ processor \in BatchProcessors
    /\ writerOpens \in BOOLEAN
    /\ \/ /\ films \in SeqsUpTo(FilmKinds, MaxFilms)
          /\ videoFrames = <<>>
       \/ /\ films = <<>>
          /\ \E sizes \in SeqsUpTo(VideoFrameSizes, MaxFrames) \cup {FiveFrameSizes} :
                videoFrames = [k \in 1..Len(sizes) |-> FrameOfSize(sizes[k])]
    /\ video = NoVideo
    /\ batch = NoBatch
    /\ image = NoImage
    /\ result = NoResult
    /\ previous = NoResult
    /\ TrimIdle
    /\ ExtractIdle
    /\ GuiIdle
    /\ MergeIdle
    /\ WorkerIdle

\* create_video(frames, output_path, fps) called directly
CreateVideoCall ==
    /\ batch = NoBatch
    /\ films = <<>>
    /\ video' = CreateVideo(videoFrames, writerOpens)
    /\ batch' = [NoBatch EXCEPT !.driver = "create_video"]
    /\ UNCHANGED <<videoFrames, films, writerOpens, detectVars, trimVars, extractVars, guiVars, mergeVars, workerVars>>

\* the effect of a batch driver on the state
Driven(outcome) ==
    /\ batch' = outcome.batch
    /\ video' = outcome.video
    /\ processor' = [processor EXCEPT !.frame_height = outcome.frame_height]
    /\ UNCHANGED <<videoFrames, films, writerOpens, image, result, previous,
                   trimVars, extractVars, guiVars, mergeVars, workerVars>>

ProcessMultipleImagesCall ==
    /\ batch = NoBatch
    /\ videoFrames = <<>>
    /\ \E outcome \in {ProcessMultipleImages(processor, films, writerOpens)} :
          Driven(outcome)

ThreadRunCall ==
    /\ batch = NoBatch
    /\ videoFrames = <<>>
    /\ \E outcome \in {ThreadRun(processor, films, writerOpens)} : Driven(outcome)

ProcessCurrentFilmCall ==
    /\ batch = NoBatch
    /\ videoFrames = <<>>
    /\ films # <<>>
    /\ \E outcome \in {ProcessCurrentFilm(processor, films)} : Driven(outcome)

NextPipeline ==
    \/ CreateVideoCall
    \/ ProcessMultipleImagesCall
    \/ ThreadRunCall
    \/ ProcessCurrentFilmCall

SpecPipeline == InitPipeline /\ [][NextPipeline]_vars

BatchDrivers == {"process_multiple_images", "VideoProcessThread.run", "process_current_film"}

\* C6: create_video on an empty frame list returns False without touching the
\* video writer, and VideoProcessThread.run reports failure without calling
\* create_video when no frames were accumulated.
EmptyFrameSetNoIO ==
    /\ (batch.driver = "create_video" /\ videoFrames = <<>>) =>
           /\ video.status = "returned"
           /\ ~video.value
           /\ video.log = <<>>
    /\ (batch.driver = "VideoProcessThread.run" /\ batch.all_frames = <<>>) =>
           /\ ~batch.value
           /\ batch.video_calls = 0
           /\ batch.log = <<>>
           /\ video = NoVideo
           /\ batch.signals[Len(batch.signals)] = Finished(FALSE)

\* create_video was called with an empty frame list and has returned
EmptyFrameSetNoIOWitness ==
    /\ batch.driver = "create_video"
    /\ videoFrames = <<>>
    /\ video.status = "returned"

\* C7: the video writer create_video opened is released when the call ends,
\* whether all frames were written or a frame raised an error.
WriterReleasedOnEveryExit ==
    (video.status # "none" /\ video.log # <<>>) =>
        video.log[Len(video.log)] = "release"

\* C8: when the output stream cannot be opened, create_video returns failure and
\* the batch drivers that called it report failure.
WriterFailureReported ==
    /\ (video.status = "returned" /\ video.log # <<>> /\ ~video.opened) => ~video.value
    /\ (batch.driver \in BatchDrivers /\ batch.video_calls > 0 /\ ~writerOpens) =>
           ~batch.value

\* C9: a batch driver visits every strip of the batch, in order, whatever happened
\* to the strips before it (undecodable, no frames, detection failed).
BatchFailureIsLocal ==
    batch.driver \in BatchDrivers =>
        batch.visited = [k \in 1..Len(films) |-> k]

----------------------------------------------------------------------------
(* Properties of create_video on a non-empty frame list *)

\* the frame list of the create_video call whose outcome is held in video
AssembledFrames ==
    IF batch.driver = "create_video" THEN videoFrames ELSE batch.all_frames

\* create_video was called, directly or by VideoProcessThread.run, and got past
\* its empty-list test
AssemblyRan ==
    /\ batch.driver \in {"create_video", "VideoProcessThread.run"}
    /\ video.log # <<>>

AssembledWidths == [k \in 1..Len(AssembledFrames) |-> FrameWidth(AssembledFrames[k])]

AssembledHeights == [k \in 1..Len(AssembledFrames) |-> FrameHeight(AssembledFrames[k])]

\* the k-th smallest entry of a list of integers
RankedValue(values, k) ==
    CHOOSE v \in Elems(values) :
        /\ Cardinality({i \in 1..Len(values) : values[i] < v}) < k
        /\ Cardinality({i \in 1..Len(values) : values[i] <= v}) >= k

\* the median, truncated: the middle entry, or the mean of the two middle ones
TruncatedMedian(values) ==
    LET n == Len(values)
    IN  IF n % 2 = 1 THEN RankedValue(values, (n + 1) \div 2)
        ELSE (RankedValue(values, n \div 2) + RankedValue(values, n \div 2 + 1)) \div 2

\* the smallest even number that is not below m
NextEven(m) == 2 * ((m + 1) \div 2)

\* C13: the target width is the truncated median of the frame widths rounded up
\* to the next even number, the target height likewise from the frame heights;
\* both are even; the five frames of the scenario get the target 100 x 200.
TargetIsEvenMedian ==
    AssemblyRan =>
        /\ video.target_width = NextEven(TruncatedMedian(AssembledWidths))
        /\ video.target_height = NextEven(TruncatedMedian(AssembledHeights))
        /\ video.target_width % 2 = 0
        /\ video.target_height % 2 = 0
        /\ [k \in 1..Len(AssembledFrames) |-> <<AssembledWidths[k], AssembledHeights[k]>>]
               = FiveFrameSizes =>
               /\ video.target_width = 100
               /\ video.target_height = 200

\* create_video has returned for the five frames of the scenario
TargetIsEvenMedianWitness ==
    /\ batch.driver = "create_video"
    /\ Len(videoFrames) = 5
    /\ video.status = "returned"
    /\ video.target_width = 100
    /\ video.target_height = 200

\* C14: every frame of the list is resized to at least 1 x 1 and at most the
\* target size, and is pasted at non-negative offsets that centre it to within
\* one pixel, so that all of it lies inside the canvas.
FramesFitCanvas ==
    AssemblyRan =>
        \A k \in 1..Len(AssembledFrames) :
            LET p == PlaceFrame(AssembledFrames[k], video.target_width, video.target_height)
            IN  /\ p.new_w >= 1
                /\ p.new_h >= 1
                /\ p.new_w <= video.target_width
                /\ p.new_h <= video.target_height
                /\ p.x_offset >= 0
                /\ p.y_offset >= 0
                /\ p.x_offset + p.new_w <= video.target_width
                /\ p.y_offset + p.new_h <= video.target_height
                /\ video.target_width - p.new_w - 2 * p.x_offset \in {0, 1}
                /\ video.target_height - p.new_h - 2 * p.y_offset \in {0, 1}

\* C17: when create_video succeeds on a non-empty frame list, the writer is
\* opened once, then gets one write per frame of the list, in the order of the
\* list and each a canvas of the target size, and is then released once.
WriterCallsInOrder ==
    (AssemblyRan /\ video.status = "returned" /\ video.value) =>
        LET n == Len(AssembledFrames)
        IN  /\ n > 0
            /\ Len(video.log) = n + 2
            /\ video.log[1] = "open"
            /\ \A k \in 2..(n + 1) : video.log[k] = "write"
            /\ video.log[n + 2] = "release"
            /\ Len(video.written) = n
            /\ \A k \in 1..n :
                   /\ video.written[k].canvas_w = video.target_width
                   /\ video.written[k].canvas_h = video.target_height
                   /\ video.written[k].new_w =
                          PlaceFrame(AssembledFrames[k], video.target_width,
                                     video.target_height).new_w
                   /\ video.written[k].new_h =
                          PlaceFrame(AssembledFrames[k], video.target_width,
                                     video.target_height).new_h

\* a direct call wrote three frames that were placed in three different ways
WriterCallsInOrderWitness ==
    /\ batch.driver = "create_video"
    /\ video.status = "returned"
    /\ video.value
    /\ Len(video.written) = 3
    /\ video.written[1] # video.written[2]
    /\ video.written[2] # video.written[3]
    /\ video.written[1] # video.written[3]

----------------------------------------------------------------------------
(* Properties of the frame list a batch accumulates *)

\* frame a comes before frame b in strip order, and within a strip from top to bottom
ComesBefore(a, b) ==
    \/ a.film < b.film
    \/ /\ a.film = b.film
       /\ a.band < b.band
       /\ a.y1 < b.y1

\* C15: the list accumulated by VideoProcessThread.run and process_current_film
\* holds the frames strip by strip in processing order, each strip's frames from
\* top to bottom, every strip that yielded frames being present; create_video
\* writes them in that order.
FramesKeepStripOrder ==
    (batch.driver \in {"VideoProcessThread.run", "process_current_film"}
        /\ "error" \notin Elems(batch.outcomes)) =>
        /\ \A k \in 1..Len(batch.all_frames), l \in 1..Len(batch.all_frames) :
               k < l => ComesBefore(batch.all_frames[k], batch.all_frames[l])
        /\ \A i \in 1..Len(batch.visited) :
               (batch.outcomes[i] = "frames") <=>
                   (\E k \in 1..Len(batch.all_frames) :
                        batch.all_frames[k].film = batch.visited[i])
        /\ \A k \in 1..Len(video.written) :
               video.written[k] = PlaceFrame(batch.all_frames[k], video.target_width,
                                             video.target_height)

\* the worker wrote a video from two strips with several frames each
FramesKeepStripOrderWitness ==
    /\ batch.driver = "VideoProcessThread.run"
    /\ video.status = "returned"
    /\ Len(video.written) = Len(batch.all_frames)
    /\ \E k \in 1..Len(batch.all_frames), l \in 1..Len(batch.all_frames) :
          /\ batch.all_frames[k].film = 1
          /\ batch.all_frames[l].film = 2
          /\ batch.all_frames[k].band > 1
          /\ batch.all_frames[l].band > 1
          /\ FrameWidth(batch.all_frames[k]) # FrameWidth(batch.all_frames[l])

----------------------------------------------------------------------------
(* The selection boxes of InteractiveFilmPreview and get_selected_regions.   *)
(* A box is its QRect: x, y of the top-left corner, width w and height h.    *)

\* the boxes of one session
MaxBoxes == 2

\* QRect.bottom()
RectBottom(box) == box.y + box.h - 1

\* add_box(): full width, default_box_height rows, below the last box or at row 50
AddedBox(img, boxes) ==
    [x |-> 0,
     y |-> IF boxes # <<>> THEN RectBottom(boxes[Len(boxes)]) + 10 ELSE 50,
     w |-> img.W,
     h |-> 100]

\* duplicate_box(box_index): a copy moved down by the height plus 10
DuplicatedBox(box) == [box EXCEPT !.y = @ + box.h + 10]

\* the slice image[y1:y2, x1:x2] get_selected_regions cuts for one box
ClampedRegion(img, box, index) ==
    [box |-> index,
     x1 |-> Max(0, Min(box.x, img.W - 1)),
     y1 |-> Max(0, Min(box.y, img.H - 1)),
     x2 |-> Max(0, Min(box.x + box.w, img.W)),
     y2 |-> Max(0, Min(box.y + box.h, img.H))]

\* the region is appended
RegionKept(r) == r.x2 > r.x1 /\ r.y2 > r.y1

RECURSIVE RegionsFrom(_, _, _, _)
RegionsFrom(img, boxes, i, acc) ==
    IF i > Len(boxes) THEN acc
    ELSE Only({RegionsFrom(img, boxes, i + 1,
                           IF RegionKept(r) THEN Append(acc, r) ELSE acc) :
               r \in {ClampedRegion(img, boxes[i], i)}})

\* get_selected_regions()
GetSelectedRegions(cur, boxes) ==
    IF cur = None \/ boxes = <<>> THEN <<>>
    ELSE RegionsFrom(cur[1], boxes, 1, <<>>)

\* the images on display: the strip they were decoded from and their size
PreviewImages == {[film |-> 1, W |-> 100, H |-> 120], [film |-> 1, W |-> 100, H |-> 400]}

\* where the mouse can leave one side of a box on an axis of the given size:
\* <<start, extent>>
Spans(size) ==
    {<<0, size>>, <<-20, 50>>, <<-40, 30>>, <<size - 10, 30>>, <<size, 30>>, <<10, 0>>}

\* the rectangles dragging and resizing leave on an image
DraggedBoxes(img) ==
    {[x |-> sx[1], y |-> sy[1], w |-> sx[2], h |-> sy[2]] :
        sx \in Spans(img.W), sy \in Spans(img.H)}

InitRegions ==
    /\ \/ /\ current_image = None
          /\ selection_boxes = <<>>
       \/ \E img \in PreviewImages :
             /\ current_image = Some(img)
             /\ selection_boxes \in SeqsUpTo(DraggedBoxes(img), MaxBoxes)
    /\ regions = None
    /\ current_frames = <<>>
    /\ generate_enabled = FALSE
    /\ DetectIdle
    /\ TrimIdle
    /\ ExtractIdle
    /\ PipelineIdle
    /\ MergeIdle
    /\ WorkerIdle

RegionsFrame == <<current_image, current_frames, generate_enabled,
                  detectVars, trimVars, extractVars, pipelineVars, mergeVars, workerVars>>

\* add_box()
AddBox ==
    /\ regions = None
    /\ current_image # None
    /\ Len(selection_boxes) <= MaxBoxes
    /\ selection_boxes' = Append(selection_boxes, AddedBox(current_image[1], selection_boxes))
    /\ UNCHANGED <<regions, RegionsFrame>>

\* duplicate_box(box_index)
DuplicateBox ==
    /\ regions = None
    /\ Len(selection_boxes) <= MaxBoxes
    /\ \E i \in 1..Len(selection_boxes) :
          selection_boxes' = Append(selection_boxes, DuplicatedBox(selection_boxes[i]))
    /\ UNCHANGED <<regions, RegionsFrame>>

\* clear_boxes()
ClearBoxes ==
    /\ regions = None
    /\ selection_boxes # <<>>
    /\ selection_boxes' = <<>>
    /\ UNCHANGED <<regions, RegionsFrame>>

\* get_selected_regions()
GetSelectedRegionsCall ==
    /\ regions = None
    /\ regions' = Some(GetSelectedRegions(current_image, selection_boxes))
    /\ UNCHANGED <<selection_boxes, RegionsFrame>>

NextRegions ==
    \/ AddBox
    \/ DuplicateBox
    \/ ClearBoxes
    \/ GetSelectedRegionsCall

SpecRegions == InitRegions /\ [][NextRegions]_vars

\* the part of a box that lies on the image: columns x1..x2-1 of rows y1..y2-1
BoxOnImage(img, box, index) ==
    [box |-> index,
     x1 |-> Max(box.x, 0),
     y1 |-> Max(box.y, 0),
     x2 |-> Min(box.x + box.w, img.W),
     y2 |-> Min(box.y + box.h, img.H)]

\* the indexes of the boxes that share at least one pixel with the image
BoxesOnImage(img, boxes) ==
    {i \in 1..Len(boxes) : RegionKept(BoxOnImage(img, boxes[i], i))}

\* C18: get_selected_regions returns, in box order, one region per box whose
\* intersection with the image has positive area, the region being that
\* intersection; every other box contributes nothing.
RegionsAreBoxesOnImage ==
    (regions # None /\ current_image # None) =>
        LET img == current_image[1]
            on == Sorted(BoxesOnImage(img, selection_boxes))
        IN  regions[1] = [k \in 1..Len(on) |-> BoxOnImage(img, selection_boxes[on[k]], on[k])]

----------------------------------------------------------------------------
(* The frame list of the main window: automatic extraction, manual regions,  *)
(* deleting, clearing, and generate_video.                                   *)

\* the frames the window keeps in one session
MaxCurated == 4

\* the regions cut by hand from the strip on display, as frames of the list
ManualFrames(img, regionList) ==
    [k \in 1..Len(regionList) |->
        [film |-> img.film, band |-> 0, trimmed |-> FALSE,
         y1 |-> regionList[k].y1, y2 |-> regionList[k].y2,
         x1 |-> regionList[k].x1, x2 |-> regionList[k].x2]]

\* del self.frames[index]
DeleteAt(seq, i) ==
    [k \in 1..(Len(seq) - 1) |-> IF k < i THEN seq[k] ELSE seq[k + 1]]

\* the strips of a session: one with three frames and one that cannot be decoded
GuiFilmKinds == {Film(TRUE, 100, 240, 8, 12), Film(FALSE, 0, 0, 0, 0)}

\* the film lists of a session: up to two strips
GuiFilmLists == SeqsUpTo(GuiFilmKinds, 2)

\* show_film_preview: the decoded strips that can be on display
Shown(filmList) ==
    {Some([film |-> i, W |-> filmList[i].W, H |-> filmList[i].H]) :
        i \in {k \in 1..Len(filmList) : filmList[k].readable}}

\* the box lists of the preview: none, or the one box add_box() draws
ShownBoxes(cur) ==
    IF cur = None THEN {<<>>} ELSE {<<>>, <<AddedBox(cur[1], <<>>)>>}

InitGui ==
    /\ processor = DefaultProcessor
    /\ writerOpens = TRUE
    /\ films \in GuiFilmLists
    /\ current_image \in {None} \cup Shown(films)
    /\ selection_boxes \in ShownBoxes(current_image)
    /\ regions = None
    /\ current_frames = <<>>
    /\ generate_enabled = FALSE
    /\ videoFrames = <<>>
    /\ video = NoVideo
    /\ batch = NoBatch
    /\ image = NoImage
    /\ result = NoResult
    /\ previous = NoResult
    /\ TrimIdle
    /\ ExtractIdle
    /\ MergeIdle
    /\ WorkerIdle

GuiFrame == <<processor, image, result, previous, trimVars, extractVars,
              videoFrames, films, writerOpens, current_image, regions, mergeVars, workerVars>>

\* process_current_film: the frames of all strips replace the list, unless
\* there are none or detection failed
ProcessCurrentFilmClicked ==
    /\ films # <<>>
    /\ \E outcome \in {ProcessCurrentFilm(processor, films)} :
          /\ batch' = outcome.batch
          /\ video' = outcome.video
          /\ current_frames' = IF outcome.batch.value THEN outcome.batch.all_frames
                               ELSE current_frames
          /\ generate_enabled' = (outcome.batch.value \/ generate_enabled)
    /\ UNCHANGED <<selection_boxes, GuiFrame>>

\* extract_manual_regions: the regions of the boxes are appended to the list
ExtractManualRegions ==
    /\ \E regionList \in {GetSelectedRegions(current_image, selection_boxes)} :
          /\ regionList # <<>>
          /\ Len(current_frames) + Len(regionList) <= MaxCurated
          /\ current_frames' = ExtendFrames(current_frames,
                                            ManualFrames(current_image[1], regionList))
    /\ generate_enabled' = TRUE
    /\ UNCHANGED <<selection_boxes, video, batch, GuiFrame>>

\* ExtractedFramesWidget.remove_frame(index), confirmed
RemoveFrame ==
    /\ \E i \in 1..Len(current_frames) : current_frames' = DeleteAt(current_frames, i)
    /\ UNCHANGED <<selection_boxes, generate_enabled, video, batch, GuiFrame>>

\* ExtractedFramesWidget.clear_all_frames, confirmed
ClearAllFrames ==
    /\ current_frames # <<>>
    /\ current_frames' = <<>>
    /\ UNCHANGED <<selection_boxes, generate_enabled, video, batch, GuiFrame>>

\* generate_video with an output file chosen, the worker thread it starts and
\* on_finished
GenerateVideo ==
    /\ generate_enabled
    /\ films # <<>>
    /\ \E outcome \in {ThreadRun(processor, films, writerOpens)} :
          /\ batch' = outcome.batch
          /\ video' = outcome.video
    /\ generate_enabled' = TRUE
    /\ UNCHANGED <<selection_boxes, current_frames, GuiFrame>>

NextGui ==
    \/ ProcessCurrentFilmClicked
    \/ ExtractManualRegions
    \/ RemoveFrame
    \/ ClearAllFrames
    \/ GenerateVideo

SpecGui == InitGui /\ [][NextGui]_vars

\* the pixels of a frame: the strip and the rectangle of it
Pixels(f) == [film |-> f.film, y1 |-> f.y1, y2 |-> f.y2, x1 |-> f.x1, x2 |-> f.x2]

PixelsOf(frameList) == [k \in 1..Len(frameList) |-> Pixels(frameList[k])]

\* C19: the video generate_video produces consists of exactly the frames of
\* current_frames at that moment, in the order of that list.
VideoShowsCurrentFrames ==
    [][(GenerateVideo /\ batch'.value) =>
           PixelsOf(batch'.all_frames) = PixelsOf(current_frames)]_vars

----------------------------------------------------------------------------
(* extract_frames on separator lists of many narrow bands *)

\* the bands of one separator list
MaxBands == 14

\* a white strip 100 columns wide
BandPicture(height) ==
    [H |-> height, W |-> 100, r0 |-> 0, r1 |-> height, c0 |-> 0, c1 |-> 100,
     bg |-> 0, fg |-> 255]

BandHeights == {300, 612, 1100}

\* the distance between neighbouring separators
BandSteps == {41, 43, 47, 51, 55, 92, 94}

\* count bands of the same height from row 0 on, closed by the last row or not
BandSeparators(height, step, count, closed) ==
    LET even == [i \in 1..(count + 1) |-> (i - 1) * step]
    IN  IF closed /\ count * step < height THEN Append(even, height) ELSE even

InitBands ==
    /\ \E height \in BandHeights, step \in BandSteps, count \in 0..MaxBands,
          closed \in BOOLEAN :
          /\ count * step <= height
          /\ strip = BandPicture(height)
          /\ frame_separators = BandSeparators(height, step, count, closed)
    /\ frames = <<>>
    /\ extracted = FALSE
    /\ DetectIdle
    /\ TrimIdle
    /\ PipelineIdle
    /\ GuiIdle
    /\ MergeIdle
    /\ WorkerIdle

NextBands == ExtractFramesCall

SpecBands == InitBands /\ [][NextBands]_vars

\* C20: for a strictly increasing separator list within [0, H], extract_frames
\* returns at most 12 frames and at most len(separators) - 1 frames.
NoOverDetection ==
    (extracted /\ StrictlyIncreasing(frame_separators)
               /\ \A i \in 1..Len(frame_separators) :
                     frame_separators[i] >= 0 /\ frame_separators[i] <= strip.H) =>
        /\ Len(frames) <= 12
        /\ Len(frames) <= Len(frame_separators) - 1

\* twelve bands of 51 rows on a strip 612 rows high all became frames
NoOverDetectionWitness ==
    /\ extracted
    /\ strip.H = 612
    /\ Len(frame_separators) = 13
    /\ Len(frames) = 12

----------------------------------------------------------------------------
(* Properties of the tiers of detect_frames *)

\* floor(height * percent / 100)
FloorPercent(height, percent) == (height * percent) \div 100

\* C21: the minimum distance detect_frames uses is min_frame_distance whenever
\* that is set, 0 included; otherwise max(floor(0.12 H), 60) at low,
\* max(floor(0.10 H), 50) at medium and max(floor(0.08 H), 40) at high, taken
\* from the effective sensitivity.
MinDistanceConfiguredOrDerived ==
    result.status # "none" =>
        result.min_distance =
            IF processor.min_frame_distance # None THEN processor.min_frame_distance[1]
            ELSE CASE result.sensitivity = "low" ->
                        Max(FloorPercent(image.H, 12), 60)
                   [] result.sensitivity = "medium" ->
                        Max(FloorPercent(image.H, 10), 50)
                   [] result.sensitivity = "high" ->
                        Max(FloorPercent(image.H, 8), 40)

\* a configured distance of 0 was used on an image with neighbouring candidates
MinDistanceConfiguredOrDerivedWitness ==
    /\ result.status = "ok"
    /\ processor.min_frame_distance = Some(0)
    /\ result.min_distance = 0
    /\ result.tier = "lines"
    /\ Len(result.seps) >= 4

----------------------------------------------------------------------------
(* The merge step of detect_frames on a candidate set of its own *)

\* candidate rows lie in 0..MergeSpan
MergeSpan == 6

\* minimum distances from -1 to MaxGap
MaxGap == 4

InitMerge ==
    /\ candidate_rows \in SUBSET (0..MergeSpan)
    /\ merge_distance \in -1..MaxGap
    /\ merged_separators = None
    /\ DetectIdle
    /\ TrimIdle
    /\ ExtractIdle
    /\ PipelineIdle
    /\ GuiIdle
    /\ WorkerIdle

\* sorted(list(set(frame_separators))) followed by the merge loop
MergeStep ==
    /\ merged_separators = None
    /\ merged_separators' = Some(MergeSeparators(Sorted(candidate_rows), merge_distance))
    /\ UNCHANGED <<candidate_rows, merge_distance,
                   detectVars, trimVars, extractVars, pipelineVars, guiVars, workerVars>>

NextMerge == MergeStep

SpecMerge == InitMerge /\ [][NextMerge]_vars

\* the kept rows below c
KeptBelow(kept, c) == {k \in kept : k < c}

\* C22: the merge step returns the ascending subsequence of the candidates
\* chosen greedily: the smallest candidate is kept, a later candidate is kept
\* exactly when it exceeds the last kept candidate below it by more than the
\* minimum distance; the result is a subset of the candidates with all gaps
\* above the minimum distance.
MergeIsGreedy ==
    merged_separators # None =>
        LET m == merged_separators[1]
            kept == Elems(m)
        IN  /\ kept \subseteq candidate_rows
            /\ StrictlyIncreasing(m)
            /\ \A i \in 1..(Len(m) - 1) : m[i + 1] - m[i] > merge_distance
            /\ \A c \in candidate_rows :
                  c \in kept <=>
                      \/ \A o \in candidate_rows : c <= o
                      \/ /\ KeptBelow(kept, c) # {}
                         /\ c - SetMax(KeptBelow(kept, c)) > merge_distance

\* a candidate close to a dropped one but far enough from the last kept one
\* was kept
MergeIsGreedyWitness ==
    /\ merged_separators # None
    /\ \E a, b, c \in candidate_rows :
          /\ a < b /\ b < c
          /\ b - a <= merge_distance
          /\ c - b <= merge_distance
          /\ c - a > merge_distance
          /\ a \in Elems(merged_separators[1])
          /\ b \notin Elems(merged_separators[1])
          /\ c \in Elems(merged_separators[1])

\* C23: the brightness-valley pass runs exactly when the effective sensitivity
\* is high and the line pass left fewer than 3 merged separators, and merges
\* its rows with the survivors of the line pass; the uniform grid runs exactly
\* when fewer than 2 separators survive, and then the returned list is the
\* grid alone.
TiersRunOnInsufficiency ==
    result.status # "none" =>
        /\ result.valley_ran <=>
              (result.sensitivity = "high" /\ Len(result.line_merged) < 3)
        /\ result.sensitivity \in {"low", "medium"} => ~result.valley_ran
        /\ result.valley_ran =>
              /\ Elems(result.survivors) \subseteq
                     Elems(result.line_merged) \cup image.dark
              /\ \A c \in Elems(result.line_merged) \cup
                          {r \in image.dark : /\ r >= Max(FloorPercent(image.H, 8), 30)
                                              /\ r < image.H - Max(FloorPercent(image.H, 8), 30)} :
                    \E k \in Elems(result.survivors) :
                        k <= c /\ c - k <= Max(result.min_distance, 0)
        /\ ~result.valley_ran => result.survivors = result.line_merged
        /\ (result.tier = "grid") <=> (Len(result.survivors) < 2)
        /\ (result.tier = "grid" /\ result.status = "ok") =>
              \A y \in Elems(result.seps) :
                  \/ y = image.H
                  \/ y = 0
                  \/ /\ processor.frame_height[1] > 0
                     /\ y % processor.frame_height[1] = 0
        /\ (result.tier # "grid" /\ result.status = "ok") =>
              Elems(result.seps) = Elems(result.survivors) \cup {0, image.H}

\* both fallbacks ran: the line pass and the brightness pass left one separator
\* between them, which the grid does not contain
TiersRunOnInsufficiencyWitness ==
    /\ result.status = "ok"
    /\ result.valley_ran
    /\ result.tier = "grid"
    /\ Len(result.survivors) = 1
    /\ result.survivors[1] \notin Elems(result.seps)

\* the frame-count estimate as the claim words it: 8 above a ratio H / W of 6,
\* 6 above 4, 4 above 2.5, else 3
RatioClass(width, height) ==
    CASE height > 6 * width -> 8
      [] height <= 6 * width /\ height > 4 * width -> 6
      [] height <= 4 * width /\ 10 * height > 25 * width -> 4
      [] 10 * height <= 25 * width -> 3

----------------------------------------------------------------------------
(* Properties of the bands of extract_frames *)

\* the height of band i after floor(3 percent) was taken off each side
ShrunkHeight(i) ==
    LET h == frame_separators[i + 1] - frame_separators[i]
    IN  h - 2 * FloorPercent(h, 3)

\* the bands that have a frame in the returned list
BandsWithFrame == {frames[k].band : k \in 1..Len(frames)}

\* C25: a band is discarded if and only if its shrunk height is below
\* max(floor(0.08 H), 40); a band whose shrunk height equals that minimum
\* yields a frame.
BandKeptFromMinimumUp ==
    extracted =>
        BandsWithFrame =
            {i \in 1..(Len(frame_separators) - 1) :
                ShrunkHeight(i) >= Max(FloorPercent(strip.H, 8), 40)}

----------------------------------------------------------------------------
(* Properties of the rectangle detect_content_boundaries returns *)

\* C26: on a non-empty region detect_content_boundaries returns a rectangle
\* with 0 <= top < bottom <= h and 0 <= left < right <= w; an all-black region
\* returns the full region; the inward scans with their padding never leave
\* bottom <= top or right <= left.
TrimIsWellFormed ==
    bounds # NoBounds =>
        /\ 0 <= bounds.top /\ bounds.top < bounds.bottom /\ bounds.bottom <= region.H
        /\ 0 <= bounds.left /\ bounds.left < bounds.right /\ bounds.right <= region.W
        /\ PixelSum(region) = 0 =>
              bounds = [top |-> 0, bottom |-> region.H, left |-> 0, right |-> region.W]
        /\ ScanRows(region)[1] < ScanRows(region)[2]
        /\ ScanCols(region)[1] < ScanCols(region)[2]

\* only the first row of a black region is bright: the scans leave rows 0..3
TrimIsWellFormedWitness ==
    /\ bounds # NoBounds
    /\ region.bg = 0
    /\ region.r0 = 0
    /\ region.r1 = 1
    /\ region.c1 > region.c0
    /\ region.H > 4
    /\ ScanRows(region) = <<0, 4>>

----------------------------------------------------------------------------
(* Properties of the frame list extract_frames returns *)

\* C27: the frames come in band order, at most one per band; the rows of a
\* frame lie inside its band shrunk by floor(3 percent) on each side, its
\* columns inside floor(0.08 W) .. floor(0.92 W) - 1; frames of different
\* bands do not overlap vertically.
FramesStayInBands ==
    extracted =>
        /\ \A k \in 1..(Len(frames) - 1) : frames[k].band < frames[k + 1].band
        /\ \A k \in 1..Len(frames) :
              LET b == frames[k].band
                  h == frame_separators[b + 1] - frame_separators[b]
              IN  /\ b \in 1..(Len(frame_separators) - 1)
                  /\ frame_separators[b] + FloorPercent(h, 3) <= frames[k].y1
                  /\ frames[k].y1 < frames[k].y2
                  /\ frames[k].y2 <= frame_separators[b + 1] - FloorPercent(h, 3)
                  /\ FloorPercent(strip.W, 8) <= frames[k].x1
                  /\ frames[k].x1 < frames[k].x2
                  /\ frames[k].x2 <= FloorPercent(strip.W, 92)
        /\ \A k, l \in 1..Len(frames) : k < l => frames[k].y2 <= frames[l].y1

\* two bands gave a frame each, the first reaching the top of its shrunk band
\* and the second trimmed by the content detection
FramesStayInBandsWitness ==
    /\ extracted
    /\ Len(frames) >= 2
    /\ frames[1].y1 = frame_separators[frames[1].band]
                      + FloorPercent(frame_separators[frames[1].band + 1]
                                     - frame_separators[frames[1].band], 3)
    /\ frames[1].y1 > frame_separators[frames[1].band]
    /\ frames[2].trimmed

----------------------------------------------------------------------------
(* The worker thread of generate_video beside the window.  film_paths and   *)
(* params are the objects of the window: VideoProcessThread keeps references *)
(* to them, so run() reads the variables films and params at each step.      *)
(* films holds the paths of the strips here.                                 *)

\* the user actions of one session
MaxClicks == 5

\* the strip files the user can add, by path
MaxPaths == 5

Paths == 1..MaxPaths

\* the file behind a path: two strips with frames, a picture detect_frames
\* fails on, and files that cannot be decoded
FileAt(path) ==
    IF path = 1 THEN Film(TRUE, 100, 240, 8, 12)
    ELSE IF path = 2 THEN Film(TRUE, 100, 100, 0, 0)
    ELSE IF path = 3 THEN Film(TRUE, 4, 2, 0, 0)
    ELSE Film(FALSE, 0, 0, 0, 0)

FilesAt(pathList) == [k \in 1..Len(pathList) |-> FileAt(pathList[k])]

\* sensitivity_map.get(index, "auto")
SensitivityMap(index) ==
    IF index = 1 THEN "low"
    ELSE IF index = 2 THEN "medium"
    ELSE IF index = 3 THEN "high"
    ELSE "auto"

\* what the sensitivity combo and the minimum-distance spin box can show
WidgetSettings ==
    {[sensitivity |-> 0, min_distance |-> 0], [sensitivity |-> 2, min_distance |-> 30]}

\* the values the fps spin box takes
FpsValues == {12, 24}

\* frame_height_spin.setValue(200)
FrameHeightSpin == 200

\* the processor built from a frame height, a combo index and a minimum distance
ProcessorFrom(frameHeight, index, minDistance) ==
    [frame_height |-> frameHeight,
     min_frame_distance |-> IF minDistance = 0 THEN None ELSE Some(minDistance),
     detection_sensitivity |-> SensitivityMap(index)]

\* VideoProcessThread(self.film_paths, output_file, self.params), not yet running;
\* called_films and called_params remember the inputs as they were at the call
NewThread(filmList, p) ==
    [pc |-> "start", i |-> 0, proc |-> DefaultProcessor, all_frames |-> <<>>,
     iterated |-> <<>>, signals |-> <<>>, built |-> DefaultProcessor, fps |-> None,
     video |-> NoVideo, handled |-> FALSE, called_films |-> filmList, called_params |-> p]

\* the session starts with the strips loaded and nothing processed
WorkerFilmLists == {<<>>, <<1, 2>>, <<4>>}

InitWorker ==
    /\ processor = DefaultProcessor
    /\ writerOpens \in BOOLEAN
    /\ films \in WorkerFilmLists
    /\ params = DefaultParams
    /\ threads = <<>>
    /\ clicks = 0
    /\ videoFrames = <<>>
    /\ video = NoVideo
    /\ batch = NoBatch
    /\ image = NoImage
    /\ result = NoResult
    /\ previous = NoResult
    /\ TrimIdle
    /\ ExtractIdle
    /\ GuiIdle
    /\ MergeIdle

WorkerFrame == <<image, result, previous, trimVars, extractVars, videoFrames, writerOpens,
                 current_image, selection_boxes, regions, mergeVars>>

Clicked ==
    /\ clicks < MaxClicks
    /\ clicks' = clicks + 1

\* the files of the folder are added in their order
NextPath(pathList) == CHOOSE path \in Paths \ Elems(pathList) :
                          \A other \in Paths \ Elems(pathList) : path <= other

\* add_film(file_path) with a path that is not in the list
AddFilmClicked ==
    /\ Clicked
    /\ Len(films) < MaxPaths
    /\ films' = Append(films, NextPath(films))
    /\ UNCHANGED <<processor, params, threads, current_frames, generate_enabled,
                   video, batch, WorkerFrame>>

\* remove_selected_film with an item selected
RemoveFilmClicked ==
    /\ Clicked
    /\ \E k \in 1..Len(films) : films' = DeleteAt(films, k)
    /\ current_frames' = IF films' = <<>> THEN <<>> ELSE current_frames
    /\ generate_enabled' = (films' # <<>> /\ generate_enabled)
    /\ UNCHANGED <<processor, params, threads, video, batch, WorkerFrame>>

\* clear_films, confirmed
ClearFilmsClicked ==
    /\ Clicked
    /\ films' = <<>>
    /\ current_frames' = <<>>
    /\ generate_enabled' = FALSE
    /\ UNCHANGED <<processor, params, threads, video, batch, WorkerFrame>>

\* on_fps_changed(value)
FpsChanged ==
    /\ Clicked
    /\ \E value \in FpsValues \ {params.fps} : params' = [params EXCEPT !.fps = value]
    /\ UNCHANGED <<processor, films, threads, current_frames, generate_enabled,
                   video, batch, WorkerFrame>>

\* on_auto_detect_toggled(checked): the button was checked exactly when
\* params['frame_height'] is None
AutoDetectToggled ==
    /\ Clicked
    /\ params' = [params EXCEPT !.frame_height = IF @ = None THEN Some(FrameHeightSpin)
                                                 ELSE None]
    /\ UNCHANGED <<processor, films, threads, current_frames, generate_enabled,
                   video, batch, WorkerFrame>>

\* process_current_film with the list not empty
ProcessClicked ==
    /\ Clicked
    /\ films # <<>>
    /\ \E w \in WidgetSettings :
       \E outcome \in {ProcessCurrentFilm(
                           ProcessorFrom(params.frame_height, w.sensitivity, w.min_distance),
                           FilesAt(films))} :
          /\ processor' = [ProcessorFrom(params.frame_height, w.sensitivity, w.min_distance)
                              EXCEPT !.frame_height = outcome.frame_height]
          /\ current_frames' = IF outcome.batch.value THEN outcome.batch.all_frames
                               ELSE current_frames
          /\ generate_enabled' = (outcome.batch.value \/ generate_enabled)
    /\ UNCHANGED <<films, params, threads, video, batch, WorkerFrame>>

\* generate_video with the list not empty and an output file chosen
GenerateVideoClicked ==
    /\ Clicked
    /\ generate_enabled
    /\ films # <<>>
    /\ \E w \in WidgetSettings :
          /\ params' = [params EXCEPT !.sensitivity = w.sensitivity,
                                      !.min_distance = w.min_distance]
          /\ threads' = Append(threads, NewThread(films, params'))
    /\ generate_enabled' = FALSE
    /\ UNCHANGED <<processor, films, current_frames, video, batch, WorkerFrame>>

GuiUnchanged == <<processor, films, params, clicks, current_frames, generate_enabled,
                  video, batch, WorkerFrame>>

Emit(t, emitted) == [threads[t] EXCEPT !.signals = @ \o emitted]

\* run() up to the loop: progress 10, then the processor built from self.params
RunStart(t) ==
    /\ threads[t].pc = "start"
    /\ threads' = [threads EXCEPT ![t] =
           [Emit(t, <<Progress(10)>>) EXCEPT
               !.pc = "loop",
               !.proc = ProcessorFrom(params.frame_height, params.sensitivity,
                                      params.min_distance),
               !.built = ProcessorFrom(params.frame_height, params.sensitivity,
                                       params.min_distance)]]
    /\ UNCHANGED GuiUnchanged

\* one turn of the loop of run(): enumerate() takes the next item of the list
\* as the list is now
RunStrip(t) ==
    /\ threads[t].pc = "loop"
    /\ threads[t].i < Len(films)
    /\ \E th \in {[Emit(t, <<Progress(10 + (60 * threads[t].i) \div Len(films))>>) EXCEPT
                      !.i = @ + 1,
                      !.iterated = Append(@, films[threads[t].i + 1])]} :
          IF ~FileAt(films[th.i]).readable
          THEN threads' = [threads EXCEPT ![t] = th]
          ELSE \E d \in {DetectAndExtract(th.proc, FileAt(films[th.i]), th.i)} :
                  threads' = [threads EXCEPT ![t] =
                      IF d.raised
                      THEN [th EXCEPT !.pc = "done",
                                      !.signals = Append(@, Finished(FALSE)),
                                      !.proc.frame_height = d.frame_height]
                      ELSE [th EXCEPT !.proc.frame_height = d.frame_height,
                                      !.all_frames = ExtendFrames(@, d.frames)]]
    /\ UNCHANGED GuiUnchanged

\* the list is exhausted: without frames the run ends, else progress 70
RunLoopEnd(t) ==
    /\ threads[t].pc = "loop"
    /\ threads[t].i >= Len(films)
    /\ threads' = [threads EXCEPT ![t] =
           IF threads[t].all_frames = <<>>
           THEN [Emit(t, <<Finished(FALSE)>>) EXCEPT !.pc = "done"]
           ELSE [Emit(t, <<Progress(70)>>) EXCEPT !.pc = "video"]]
    /\ UNCHANGED GuiUnchanged

\* create_video with the fps self.params holds now, and the signals after it
RunVideo(t) ==
    /\ threads[t].pc = "video"
    /\ \E v \in {CreateVideo(threads[t].all_frames, writerOpens)} :
          threads' = [threads EXCEPT ![t] =
              [Emit(t, IF v.status = "raised" THEN <<Finished(FALSE)>>
                       ELSE <<Progress(100), Finished(v.value)>>) EXCEPT
                  !.pc = "done", !.fps = Some(params.fps), !.video = v]]
    /\ UNCHANGED GuiUnchanged

\* on_finished, the slot of the finished signal of thread t
OnFinished(t) ==
    /\ threads[t].pc = "done"
    /\ ~threads[t].handled
    /\ threads' = [threads EXCEPT ![t].handled = TRUE]
    /\ generate_enabled' = TRUE
    /\ UNCHANGED <<processor, films, params, clicks, current_frames, video, batch,
                   WorkerFrame>>

NextWorker ==
    \/ AddFilmClicked
    \/ RemoveFilmClicked
    \/ ClearFilmsClicked
    \/ FpsChanged
    \/ AutoDetectToggled
    \/ ProcessClicked
    \/ GenerateVideoClicked
    \/ \E t \in 1..Len(threads) : RunStart(t)
    \/ \E t \in 1..Len(threads) : RunStrip(t)
    \/ \E t \in 1..Len(threads) : RunLoopEnd(t)
    \/ \E t \in 1..Len(threads) : RunVideo(t)
    \/ \E t \in 1..Len(threads) : OnFinished(t)

SpecWorker == InitWorker /\ [][NextWorker]_vars

----------------------------------------------------------------------------
(* Properties of the worker thread beside the window *)

\* thread t was started and on_finished has not run for it yet
Running(t) == ~threads[t].handled

\* C28: from the start of a VideoProcessThread until on_finished handles its
\* finished signal, the generate button stays disabled and no second
\* VideoProcessThread is running, whatever the user does in between.
OneWorkerAtATime ==
    \A t \in 1..Len(threads) :
        Running(t) =>
            /\ ~generate_enabled
            /\ \A u \in 1..Len(threads) : u # t => ~Running(u)

IsPrefix(a, b) == Len(a) <= Len(b) /\ \A k \in 1..Len(a) : a[k] = b[k]

ProgressValues(signalList) ==
    SelectSeq(signalList, LAMBDA s : s.signal = "progress")

\* the signals of one run: finished once and last, progress within 10..100,
\* one progress event per strip after the first one and one before create_video
SignalsInOrder(th) ==
    LET sig == th.signals
        n == Len(sig)
    IN  /\ \A k \in 1..n : sig[k].signal = "finished" <=> (k = n /\ th.pc = "done")
        /\ th.pc = "done" => n >= 1
        /\ \A k \in 1..n : sig[k].signal = "progress" =>
                              (sig[k].percent >= 10 /\ sig[k].percent <= 100)
        /\ th.pc # "start" => Len(ProgressValues(sig)) >= 1 + Len(th.iterated)
        /\ th.video.status # "none" => \E k \in 1..n : sig[k] = Progress(70)

ProgressNeverDrops(th) ==
    LET values == ProgressValues(th.signals)
    IN  \A j \in 1..Len(values) : \A k \in j..Len(values) :
            values[j].percent <= values[k].percent

\* C29: every run of VideoProcessThread emits finished exactly once and last;
\* the progress values before it never decrease and lie within 10..100, with
\* one before each strip and one before the video is written.
RunSignalsWellFormed ==
    \A t \in 1..Len(threads) :
        SignalsInOrder(threads[t]) /\ ProgressNeverDrops(threads[t])

\* C30: a worker iterates over the strips that were in the list when
\* generate_video was called, and uses the fps, frame height, sensitivity and
\* minimum distance of that moment.
WorkerUsesInputsOfCall ==
    \A t \in 1..Len(threads) :
        LET th == threads[t]
            p == th.called_params
        IN  /\ IsPrefix(th.iterated, th.called_films)
            /\ th.pc = "video" => th.iterated = th.called_films
            /\ th.pc # "start" =>
                  th.built = ProcessorFrom(p.frame_height, p.sensitivity, p.min_distance)
            /\ th.fps # None => th.fps = Some(p.fps)

====
